---------------------------- MODULE Spec2Model ----------------------------
(***************************************************************************)
(* nvme_exporter (src/main.go, second revision, lines 498-1038): the       *)
(* Prometheus collector that turns `nvme list`, `nvme id-ctrl` and         *)
(* `nvme smart-log` JSON into metric samples.                              *)
(*                                                                         *)
(* Text is a sequence of one-character strings, so that the regular        *)
(* expression of getControllerFromNs and the "/dev/" + name concatenation  *)
(* are computed, not assumed.  A float64 sample value is kept in exact     *)
(* hundredths (296 K is 29600), which is exact for every integer Kelvin    *)
(* input under all three temperature scales.                               *)
(***************************************************************************)
EXTENDS Integers, Sequences, FiniteSets, TLC

VARIABLES
    pc,                 \* position of Collect: idle, listed, enrich, logs, totals, done, fatal
    temperatureScale,   \* *c.temperatureScale, fixed by the flag at process start
    nvmeListOutput,     \* the topology document of the current poll
    nvmeDeviceList,     \* Collect's local record list
    id,                 \* index of the id-ctrl loop (line 945)
    dev,                \* index of the smart-log loop (line 953)
    controllerCapacity, \* Collect's local map, a function from controllers to capacities
    ch,                 \* the samples sent on the metric channel in the current poll
    calls,              \* the external commands run in the current poll, in order
    polls,              \* number of polls started
    parses,             \* the <<document, list>> of every return of getDeviceList, in order
    fn,                 \* single-function harness: the function under call
    arg,                \* its argument
    ret,                \* its result
    returned,           \* whether it has returned
    describePc,         \* position of the goroutine that runs Describe and closes the channel
    sent,               \* number of sends Describe has completed
    descCh,             \* the unbuffered descriptor channel: a pending send, and whether it is closed
    rangePc,            \* position of the consumer's range over the channel
    received            \* the descriptors the consumer has received, in order

vars == <<pc, temperatureScale, nvmeListOutput, nvmeDeviceList, id, dev,
          controllerCapacity, ch, calls, polls, parses, fn, arg, ret, returned,
          describePc, sent, descCh, rangePc, received>>

describeVars == <<describePc, sent, descCh, rangePc, received>>

collectVars == <<pc, temperatureScale, nvmeListOutput, nvmeDeviceList, id, dev,
                 controllerCapacity, ch, calls, polls, parses>>

harnessVars == <<fn, arg, ret, returned>>

(***************************************************************************)
(* Text                                                                    *)
(***************************************************************************)
Digit == {"0", "1", "2", "3", "4", "5", "6", "7", "8", "9"}

Nvme == <<"n", "v", "m", "e">>

DevPrefix == <<"/", "d", "e", "v", "/">>

EmptyText == << >>

IsDigits(s) == Len(s) >= 1 /\ \A i \in 1..Len(s) : s[i] \in Digit

\* what `.*` may span: any characters but a line feed
NoNewline(s) == \A i \in 1..Len(s) : s[i] # "\n"

RECURSIVE Concat(_)
Concat(ss) == IF ss = << >> THEN << >> ELSE Head(ss) \o Concat(Tail(ss))

RECURSIVE SeqsUpTo(_, _)
SeqsUpTo(S, n) ==
    IF n = 0 THEN {<< >>}
    ELSE LET shorter == SeqsUpTo(S, n - 1)
         IN  shorter \cup {Append(s, x) : s \in {t \in shorter : Len(t) = n - 1}, x \in S}

(***************************************************************************)
(* getControllerFromNs: ^.*(nvme\d+).*\d+$                                 *)
(***************************************************************************)
\* ns = X nvme D Y with X = ns[1..p-1] (the first .*), D = q digits (the
\* group is nvme D), Y = the rest, matched by .*\d+$ : not empty, ending in
\* a digit.
ReMatch(ns, p, q) ==
    /\ p >= 1 /\ q >= 1
    /\ p + 3 + q < Len(ns)
    /\ SubSeq(ns, p, p + 3) = Nvme
    /\ IsDigits(SubSeq(ns, p + 4, p + 3 + q))
    /\ NoNewline(SubSeq(ns, 1, p - 1))
    /\ NoNewline(SubSeq(ns, p + 4 + q, Len(ns)))
    /\ ns[Len(ns)] \in Digit

ReStarts(ns) == {p \in 1..Len(ns) : \E q \in 1..Len(ns) : ReMatch(ns, p, q)}

SetMax(S) == CHOOSE x \in S : \A y \in S : y <= x

SetMin(S) == CHOOSE x \in S : \A y \in S : x <= y

\* the first .* is greedy: of the places the group can start, the last
GroupStart(ns) == SetMax(ReStarts(ns))

\* \d+ is greedy: of the digit counts that let the rest match, the largest
LazyGroupDigits(ns, p) == SetMin({q \in 1..Len(ns) : ReMatch(ns, p, q)})

GroupDigits(ns, p) == SetMax({q \in 1..Len(ns) : ReMatch(ns, p, q)})

Fatal == [fatal |-> TRUE, value |-> << >>]

Returns(v) == [fatal |-> FALSE, value |-> v]

getControllerFromNs(ns) ==
    IF ReStarts(ns) # {}
    THEN LET p == GroupStart(ns)
         IN  Returns(SubSeq(ns, p, p + 3 + GroupDigits(ns, p)))
    ELSE Fatal

(***************************************************************************)
(* The `nvme list -o json` document.  An absent key and its presence flag  *)
(* are kept apart from an empty array, as gjson keeps them apart.          *)
(***************************************************************************)
NsEntry(name, phys, used, sector, lba) ==
    [NameSpace |-> name, PhysicalSize |-> phys, UsedBytes |-> used,
     SectorSize |-> sector, MaximumLBA |-> lba]

CtlEntry(name, namespaces) == [Controller |-> name, Namespaces |-> namespaces]

SubsysEntry(hasNs, namespaces, hasCtl, controllers) ==
    [hasNamespaces |-> hasNs, Namespaces |-> namespaces,
     hasControllers |-> hasCtl, Controllers |-> controllers]

\* a device entry of the hierarchical generations
HierDevice(subsystems) ==
    [hasDevicePath |-> FALSE, DevicePath |-> EmptyText,
     hasSubsystems |-> TRUE, Subsystems |-> subsystems,
     PhysicalSize |-> 0, UsedBytes |-> 0, SectorSize |-> 0, MaximumLBA |-> 0]

\* a device entry of the flat generation, which may carry size fields
FlatDevice(path, phys, used, sector, lba) ==
    [hasDevicePath |-> TRUE, DevicePath |-> path,
     hasSubsystems |-> FALSE, Subsystems |-> << >>,
     PhysicalSize |-> phys, UsedBytes |-> used, SectorSize |-> sector, MaximumLBA |-> lba]

\* a device entry with neither key
BareDevice ==
    [hasDevicePath |-> FALSE, DevicePath |-> EmptyText,
     hasSubsystems |-> FALSE, Subsystems |-> << >>,
     PhysicalSize |-> 0, UsedBytes |-> 0, SectorSize |-> 0, MaximumLBA |-> 0]

ListDoc(devices) == [valid |-> TRUE, Devices |-> devices]

\* text that gjson.Valid rejects
InvalidDoc == [valid |-> FALSE, Devices |-> << >>]

Map(f(_), s) == [i \in 1..Len(s) |-> f(s[i])]

HasSubsystems(d) == d.hasSubsystems

HasNamespaces(sub) == sub.hasNamespaces

HasControllers(sub) == sub.hasControllers

HasDevicePath(d) == d.hasDevicePath

NamespacesOf(sub) == sub.Namespaces

ControllersOf(sub) == sub.Controllers

DevicePathOf(d) == d.DevicePath

\* gjson "Subsystems.#.Namespaces" on one device entry
SubsystemsNamespaces(d) == Map(NamespacesOf, SelectSeq(d.Subsystems, HasNamespaces))

\* gjson "Subsystems.#.Controllers" on one device entry
SubsystemsControllers(d) == Map(ControllersOf, SelectSeq(d.Subsystems, HasControllers))

\* gjson "Devices.#.Subsystems.#.Namespaces": one element per device entry
\* that has a Subsystems array, holding the Namespaces arrays of those of
\* its subsystems that have one
QueryNamespaces(doc) == Map(SubsystemsNamespaces, SelectSeq(doc.Devices, HasSubsystems))

\* gjson "Devices.#.Subsystems.#.Controllers"
QueryControllers(doc) == Map(SubsystemsControllers, SelectSeq(doc.Devices, HasSubsystems))

\* gjson "Devices.#.DevicePath"
QueryDevicePaths(doc) == Map(DevicePathOf, SelectSeq(doc.Devices, HasDevicePath))

(***************************************************************************)
(* getDeviceList                                                           *)
(***************************************************************************)
nvmeNamespace(path, controller, phys, used, sector, lba) ==
    [devicePath |-> path, nsController |-> controller, nsPhysicalSize |-> phys,
     nsTotalCapacity |-> 0, nsMaximumLBA |-> lba, nsUsedBytes |-> used,
     nsSectorSize |-> sector]

FatalList == [fatal |-> TRUE, list |-> << >>]

ReturnsList(l) == [fatal |-> FALSE, list |-> l]

\* a loop body that may call log.Fatalf: the step of a fold over the items
Then(acc, step) ==
    IF acc.fatal \/ step.fatal THEN FatalList ELSE ReturnsList(acc.list \o step.list)

\* lines 873-883: one namespace listed directly under a subsystem
BareNamespaceRecord(namespace) ==
    LET ns         == namespace.NameSpace
        controller == getControllerFromNs(ns)
    IN  IF controller.fatal THEN FatalList
        ELSE ReturnsList(<<nvmeNamespace(DevPrefix \o ns, controller.value,
                                         namespace.PhysicalSize, namespace.UsedBytes,
                                         namespace.SectorSize, namespace.MaximumLBA)>>)

\* lines 900-909: one namespace listed under a controller
ControllerNamespaceRecord(namespace, controllerID) ==
    ReturnsList(<<nvmeNamespace(DevPrefix \o namespace.NameSpace, controllerID,
                                namespace.PhysicalSize, namespace.UsedBytes,
                                namespace.SectorSize, namespace.MaximumLBA)>>)

RECURSIVE BareNamespacesLoop(_)
BareNamespacesLoop(namespaces) ==
    IF namespaces = << >> THEN ReturnsList(<< >>)
    ELSE Then(BareNamespaceRecord(Head(namespaces)), BareNamespacesLoop(Tail(namespaces)))

RECURSIVE ControllerNamespacesLoop(_, _)
ControllerNamespacesLoop(namespaces, controllerID) ==
    IF namespaces = << >> THEN ReturnsList(<< >>)
    ELSE Then(ControllerNamespaceRecord(Head(namespaces), controllerID),
              ControllerNamespacesLoop(Tail(namespaces), controllerID))

\* the declared name used without the check of line 895
ControllerRecordsUnchecked(controller) ==
    ControllerNamespacesLoop(controller.Namespaces, controller.Controller)

\* the check of line 895 made inside the namespace loop
ControllerRecordsCheckedPerNamespace(controller) ==
    LET controllerID == controller.Controller
    IN  IF controller.Namespaces = << >> THEN ReturnsList(<< >>)
        ELSE IF controllerID = EmptyText THEN FatalList
        ELSE ControllerNamespacesLoop(controller.Namespaces, controllerID)

\* lines 894-910: one controller entry
ControllerRecords(controller) ==
    LET controllerID == controller.Controller
    IN  IF controllerID = EmptyText THEN FatalList
        ELSE ControllerNamespacesLoop(controller.Namespaces, controllerID)

RECURSIVE ControllersLoop(_)
ControllersLoop(controllers) ==
    IF controllers = << >> THEN ReturnsList(<< >>)
    ELSE Then(ControllerRecords(Head(controllers)), ControllersLoop(Tail(controllers)))

\* lines 870-886: the arrays of the first query, outermost first
RECURSIVE NamespacesPass(_)
NamespacesPass(devices) ==
    IF devices = << >> THEN ReturnsList(<< >>)
    ELSE Then(BareNamespacesLoop(Concat(Head(devices))), NamespacesPass(Tail(devices)))

\* lines 891-913: the arrays of the second query
RECURSIVE ControllersPass(_)
ControllersPass(devices) ==
    IF devices = << >> THEN ReturnsList(<< >>)
    ELSE Then(ControllersLoop(Concat(Head(devices))), ControllersPass(Tail(devices)))

\* the flat entry's sizes left at the zero value of the struct
DevicePathRecordZeroed(devicePath) ==
    LET controller == getControllerFromNs(devicePath)
    IN  IF controller.fatal THEN FatalList
        ELSE ReturnsList(<<nvmeNamespace(devicePath, controller.value, 0, 0, 0, 0)>>)

\* lines 920-928: one entry of the flat list
DevicePathRecord(devicePath) ==
    LET controller == getControllerFromNs(devicePath)
    IN  IF controller.fatal THEN FatalList
        ELSE ReturnsList(<<nvmeNamespace(devicePath, controller.value, -1, -1, -1, -1)>>)

RECURSIVE DevicePathsPass(_)
DevicePathsPass(devicePaths) ==
    IF devicePaths = << >> THEN ReturnsList(<< >>)
    ELSE Then(DevicePathRecord(Head(devicePaths)), DevicePathsPass(Tail(devicePaths)))

\* line 865: var deviceList []nvmeNamespace, a fresh local of every call
StaleDeviceList == nvmeDeviceList

DeviceListDecl == << >>

\* the first pass returning its list as soon as it has found a namespace
getDeviceListFirstWins(nvmeListOutput_) ==
    IF ~nvmeListOutput_.valid THEN FatalList
    ELSE LET first == Then(ReturnsList(DeviceListDecl),
                           IF Len(QueryNamespaces(nvmeListOutput_)) > 0
                           THEN NamespacesPass(QueryNamespaces(nvmeListOutput_))
                           ELSE ReturnsList(<< >>))
         IN  IF first.fatal THEN FatalList
             ELSE IF Len(first.list) > 0 THEN first
             ELSE IF Len(QueryControllers(nvmeListOutput_)) > 0
                  THEN Then(first, ControllersPass(QueryControllers(nvmeListOutput_)))
                  ELSE IF Len(QueryDevicePaths(nvmeListOutput_)) > 0
                       THEN Then(first, DevicePathsPass(QueryDevicePaths(nvmeListOutput_)))
                       ELSE FatalList

\* the controller branch without the return of line 914
getDeviceListFallingThrough(nvmeListOutput_) ==
    IF ~nvmeListOutput_.valid THEN FatalList
    ELSE LET first  == Then(ReturnsList(DeviceListDecl),
                            IF Len(QueryNamespaces(nvmeListOutput_)) > 0
                            THEN NamespacesPass(QueryNamespaces(nvmeListOutput_))
                            ELSE ReturnsList(<< >>))
             second == IF Len(QueryControllers(nvmeListOutput_)) > 0
                       THEN Then(first, ControllersPass(QueryControllers(nvmeListOutput_)))
                       ELSE first
         IN  IF second.fatal THEN FatalList
             ELSE IF Len(QueryDevicePaths(nvmeListOutput_)) > 0
                  THEN Then(second, DevicePathsPass(QueryDevicePaths(nvmeListOutput_)))
                  ELSE FatalList

getDeviceList(nvmeListOutput_) ==
    IF ~nvmeListOutput_.valid THEN FatalList
    ELSE LET first == Then(ReturnsList(DeviceListDecl),
                           IF Len(QueryNamespaces(nvmeListOutput_)) > 0
                           THEN NamespacesPass(QueryNamespaces(nvmeListOutput_))
                           ELSE ReturnsList(<< >>))
         IN  IF first.fatal THEN FatalList
             ELSE IF Len(QueryControllers(nvmeListOutput_)) > 0
                  THEN Then(first, ControllersPass(QueryControllers(nvmeListOutput_)))
                  ELSE IF Len(QueryDevicePaths(nvmeListOutput_)) > 0
                       THEN Then(first, DevicePathsPass(QueryDevicePaths(nvmeListOutput_)))
                       ELSE FatalList

(***************************************************************************)
(* JSON values as gjson reads them.  An object is a function from keys to  *)
(* values.  A key is the sequence of the words of its name, split at "_":  *)
(* "temperature_sensor_1" is <<"temperature", "sensor", "1">>.             *)
(***************************************************************************)
JsonNull == [type |-> "Null", num |-> 0, members |-> << >>]

JsonNumber(n) == [type |-> "Number", num |-> n, members |-> << >>]

JsonObject(m) == [type |-> "JSON", num |-> 0, members |-> m]

\* gjson.Get(json, path) for a one-key path
Get(json, path) == IF path \in DOMAIN json THEN json[path] ELSE JsonNull

\* Result.Exists()
Exists(result) == result.type # "Null"

\* Result.Float(), in hundredths: a number is its value, null and an object are 0
Float(result) == IF result.type = "Number" THEN 100 * result.num ELSE 0

\* Result.Int()
Int_(result) == IF result.type = "Number" THEN result.num ELSE 0

\* strings.Contains(substring, word) for a word that holds no "_"
Contains(substring, word) == \E i \in 1..Len(substring) : substring[i] = word

Decimal == <<"1", "2", "3", "4", "5", "6", "7", "8", "9", "10", "11", "12">>

\* fmt.Sprintf("temperature_sensor_%d", i)
SensorField(i) == <<"temperature", "sensor", Decimal[i]>>

(***************************************************************************)
(* newNvmeCollector: the descriptor catalogue                              *)
(***************************************************************************)
maxTempSensors == 8

labelsDevice == <<"device">>

labelsDeviceController == <<"device", "controller">>

labelsController == <<"controller">>

\* prometheus.NewDesc(fqName, help, variableLabels, nil)
NewDesc(fqName, variableLabels) == [fqName |-> fqName, variableLabels |-> variableLabels]

\* a nil *prometheus.Desc
NilDesc == [fqName |-> << >>, variableLabels |-> << >>]

\* the slice made with its length and then appended to: eight nil entries first
sensorDescriptionsPreallocated ==
    [i \in 1..maxTempSensors |-> NilDesc]
    \o [i \in 1..maxTempSensors |-> NewDesc(<<"nvme_temperature_sensor", Decimal[i]>>, labelsDevice)]

sensorDescriptions ==
    [i \in 1..maxTempSensors |-> NewDesc(<<"nvme_temperature_sensor", Decimal[i]>>, labelsDevice)]

collector ==
    [nvmeCriticalWarning     |-> NewDesc(<<"nvme_critical_warning">>, labelsDevice),
     nvmeAvailableSpare      |-> NewDesc(<<"nvme_available_spare_critical">>, labelsDevice),
     nvmeTempThreshold       |-> NewDesc(<<"nvme_temp_threshold_exceeded">>, labelsDevice),
     nvmeReliabilityDegraded |-> NewDesc(<<"nvme_reliability_degraded">>, labelsDevice),
     nvmeRO                  |-> NewDesc(<<"nvme_readonly">>, labelsDevice),
     nvmeVMBUFailed          |-> NewDesc(<<"nvme_vmbu_failed">>, labelsDevice),
     nvmePMRRO               |-> NewDesc(<<"nvme_pmr_ro">>, labelsDevice),
     nvmeTemperature         |-> NewDesc(<<"nvme_temperature">>, labelsDevice),
     nvmeAvailSpare          |-> NewDesc(<<"nvme_avail_spare">>, labelsDevice),
     nvmeSpareThresh         |-> NewDesc(<<"nvme_spare_thresh">>, labelsDevice),
     nvmePercentUsed         |-> NewDesc(<<"nvme_percent_used">>, labelsDevice),
     nvmeEnduranceGrpCriticalWarningSummary |->
         NewDesc(<<"nvme_endurance_grp_critical_warning_summary">>, labelsDevice),
     nvmeDataUnitsRead       |-> NewDesc(<<"nvme_data_units_read">>, labelsDevice),
     nvmeDataUnitsWritten    |-> NewDesc(<<"nvme_data_units_written">>, labelsDevice),
     nvmeHostReadCommands    |-> NewDesc(<<"nvme_host_read_commands">>, labelsDevice),
     nvmeHostWriteCommands   |-> NewDesc(<<"nvme_host_write_commands">>, labelsDevice),
     nvmeControllerBusyTime  |-> NewDesc(<<"nvme_controller_busy_time">>, labelsDevice),
     nvmePowerCycles         |-> NewDesc(<<"nvme_power_cycles">>, labelsDevice),
     nvmePowerOnHours        |-> NewDesc(<<"nvme_power_on_hours">>, labelsDevice),
     nvmeUnsafeShutdowns     |-> NewDesc(<<"nvme_unsafe_shutdowns">>, labelsDevice),
     nvmeMediaErrors         |-> NewDesc(<<"nvme_media_errors">>, labelsDevice),
     nvmeNumErrLogEntries    |-> NewDesc(<<"nvme_num_err_log_entries">>, labelsDevice),
     nvmeWarningTempTime     |-> NewDesc(<<"nvme_warning_temp_time">>, labelsDevice),
     nvmeCriticalCompTime    |-> NewDesc(<<"nvme_critical_comp_time">>, labelsDevice),
     nvmeTemperatureSensors  |-> sensorDescriptions,
     nvmeThmTemp1TransCount  |-> NewDesc(<<"nvme_thm_temp1_trans_count">>, labelsDevice),
     nvmeThmTemp2TransCount  |-> NewDesc(<<"nvme_thm_temp2_trans_count">>, labelsDevice),
     nvmeThmTemp1TotalTime   |-> NewDesc(<<"nvme_thm_temp1_trans_time">>, labelsDevice),
     nvmeThmTemp2TotalTime   |-> NewDesc(<<"nvme_thm_temp2_trans_time">>, labelsDevice),
     nvmeNSPhysicalSize      |-> NewDesc(<<"nvme_namespace_physical_size">>, labelsDeviceController),
     nvmeNSMaximumLBA        |-> NewDesc(<<"nvme_namespace_maximum_lba">>, labelsDeviceController),
     nvmeNSUsedBytes         |-> NewDesc(<<"nvme_namespace_used_bytes">>, labelsDeviceController),
     nvmeNSSectorSize        |-> NewDesc(<<"nvme_namespace_sector_size">>, labelsDeviceController),
     nvmeTotalCapacity       |-> NewDesc(<<"nvme_total_capacity">>, labelsController)]

(***************************************************************************)
(* makeMetric and the samples of one device                                *)
(***************************************************************************)
\* prometheus.MustNewConstMetric(desc, valueType, value, labelValues...)
MustNewConstMetric(desc, valueType, value, labelValues) ==
    [desc |-> desc, valType |-> valueType, value |-> value, labelValues |-> labelValues]

\* both scales taking 273.15 as the offset
ConvertSameOffset(value, scale) ==
    LET celsius == IF scale = "celsius" THEN value - 27315 ELSE value
    IN  IF scale = "fahrenheit" THEN ((celsius - 27315) * 9) \div 5 + 3200 ELSE celsius

\* lines 839-844, in hundredths of a degree
Convert(value, scale) ==
    LET celsius == IF scale = "celsius" THEN value - 27300 ELSE value
    IN  IF scale = "fahrenheit" THEN ((celsius - 27315) * 9) \div 5 + 3200 ELSE celsius

\* the conversion applied only to a value that the document holds
makeMetricConvertingPresent(description, valType, result, substring, label) ==
    LET value == Float(Get(result, substring))
    IN  MustNewConstMetric(description, valType,
                           IF Contains(substring, "temperature") /\ Exists(Get(result, substring))
                           THEN Convert(value, temperatureScale)
                           ELSE value,
                           <<label>>)

\* the conversion keyed on "temp" instead of "temperature"
makeMetricMatchingTemp(description, valType, result, substring, label) ==
    LET value == Float(Get(result, substring))
    IN  MustNewConstMetric(description, valType,
                           IF \E i \in 1..Len(substring) :
                                 substring[i] \in {"temperature", "temp", "temp1", "temp2", "temp3"}
                           THEN Convert(value, temperatureScale)
                           ELSE value,
                           <<label>>)

makeMetric(description, valType, result, substring, label) ==
    LET value == Float(Get(result, substring))
    IN  MustNewConstMetric(description, valType,
                           IF Contains(substring, "temperature")
                           THEN Convert(value, temperatureScale)
                           ELSE value,
                           <<label>>)

\* the scan skipping a missing index instead of stopping at it
RECURSIVE SensorLoopSkipping(_, _, _)
SensorLoopSkipping(nvmeSmartLogText, path, i) ==
    IF i > maxTempSensors THEN << >>
    ELSE IF ~Exists(Get(nvmeSmartLogText, SensorField(i)))
         THEN SensorLoopSkipping(nvmeSmartLogText, path, i + 1)
    ELSE <<MustNewConstMetric(collector.nvmeTemperatureSensors[(i - 1) + 1], "gauge",
                              Convert(Float(Get(nvmeSmartLogText, SensorField(i))), temperatureScale),
                              <<path>>)>>
         \o SensorLoopSkipping(nvmeSmartLogText, path, i + 1)

\* the loop run for as long as the next sensor field exists, with a
\* descriptor made for each field found
RECURSIVE SensorLoopUnbounded(_, _, _)
SensorLoopUnbounded(nvmeSmartLogText, path, i) ==
    IF ~Exists(Get(nvmeSmartLogText, SensorField(i))) THEN << >>
    ELSE <<makeMetric(NewDesc(<<"nvme_temperature_sensor", Decimal[i]>>, labelsDevice), "gauge",
                      nvmeSmartLogText, SensorField(i), path)>>
         \o SensorLoopUnbounded(nvmeSmartLogText, path, i + 1)

\* lines 975-982, from index i on
RECURSIVE SensorLoop(_, _, _)
SensorLoop(nvmeSmartLogText, path, i) ==
    IF i > maxTempSensors THEN << >>
    ELSE IF ~Exists(Get(nvmeSmartLogText, SensorField(i))) THEN << >>
    ELSE <<makeMetric(collector.nvmeTemperatureSensors[(i - 1) + 1], "gauge", nvmeSmartLogText,
                      SensorField(i), path)>>
         \o SensorLoop(nvmeSmartLogText, path, i + 1)

\* the family without its last member
NestedWarningSamplesShort(warning, path) ==
    <<MustNewConstMetric(collector.nvmeCriticalWarning, "gauge", Float(Get(warning, <<"value">>)), <<path>>),
      MustNewConstMetric(collector.nvmeAvailableSpare, "gauge", Float(Get(warning, <<"available", "spare">>)), <<path>>),
      MustNewConstMetric(collector.nvmeTempThreshold, "gauge", Float(Get(warning, <<"temp", "threshold">>)), <<path>>),
      MustNewConstMetric(collector.nvmeReliabilityDegraded, "gauge", Float(Get(warning, <<"reliability", "degraded">>)), <<path>>),
      MustNewConstMetric(collector.nvmeRO, "gauge", Float(Get(warning, <<"ro">>)), <<path>>),
      MustNewConstMetric(collector.nvmeVMBUFailed, "gauge", Float(Get(warning, <<"vmbu", "failed">>)), <<path>>)>>

\* lines 967-973
NestedWarningSamples(warning, path) ==
    <<makeMetric(collector.nvmeCriticalWarning, "gauge", warning, <<"value">>, path),
      makeMetric(collector.nvmeAvailableSpare, "gauge", warning, <<"available", "spare">>, path),
      makeMetric(collector.nvmeTempThreshold, "gauge", warning, <<"temp", "threshold">>, path),
      makeMetric(collector.nvmeReliabilityDegraded, "gauge", warning, <<"reliability", "degraded">>, path),
      makeMetric(collector.nvmeRO, "gauge", warning, <<"ro">>, path),
      makeMetric(collector.nvmeVMBUFailed, "gauge", warning, <<"vmbu", "failed">>, path),
      makeMetric(collector.nvmePMRRO, "gauge", warning, <<"pmr", "ro">>, path)>>

\* the scan running whatever the kind of critical_warning
WarningSamplesScanAlways(nvmeSmartLogText, path) ==
    LET nvmeCriticalWarning == Get(nvmeSmartLogText, <<"critical", "warning">>)
    IN  (IF nvmeCriticalWarning.type = "JSON"
         THEN NestedWarningSamples(nvmeCriticalWarning.members, path)
         ELSE <<makeMetric(collector.nvmeCriticalWarning, "gauge", nvmeSmartLogText,
                           <<"critical", "warning">>, path)>>)
        \o SensorLoop(nvmeSmartLogText, path, 1)

\* lines 964-985
WarningSamples(nvmeSmartLogText, path) ==
    LET nvmeCriticalWarning == Get(nvmeSmartLogText, <<"critical", "warning">>)
    IN  IF nvmeCriticalWarning.type = "JSON"
        THEN NestedWarningSamples(nvmeCriticalWarning.members, path)
             \o SensorLoop(nvmeSmartLogText, path, 1)
        ELSE <<makeMetric(collector.nvmeCriticalWarning, "gauge", nvmeSmartLogText,
                          <<"critical", "warning">>, path)>>

\* lines 987-1007
FixedSamples(nvmeSmartLogText, path) ==
    <<makeMetric(collector.nvmeTemperature, "gauge", nvmeSmartLogText, <<"temperature">>, path),
      makeMetric(collector.nvmeAvailSpare, "gauge", nvmeSmartLogText, <<"avail", "spare">>, path),
      makeMetric(collector.nvmeSpareThresh, "gauge", nvmeSmartLogText, <<"spare", "thresh">>, path),
      makeMetric(collector.nvmePercentUsed, "gauge", nvmeSmartLogText, <<"percent", "used">>, path),
      makeMetric(collector.nvmeEnduranceGrpCriticalWarningSummary, "gauge", nvmeSmartLogText,
                 <<"endurance", "grp", "critical", "warning", "summary">>, path),
      makeMetric(collector.nvmeDataUnitsRead, "counter", nvmeSmartLogText, <<"data", "units", "read">>, path),
      makeMetric(collector.nvmeDataUnitsWritten, "counter", nvmeSmartLogText, <<"data", "units", "written">>, path),
      makeMetric(collector.nvmeHostReadCommands, "counter", nvmeSmartLogText, <<"host", "read", "commands">>, path),
      makeMetric(collector.nvmeHostWriteCommands, "counter", nvmeSmartLogText, <<"host", "write", "commands">>, path),
      makeMetric(collector.nvmeControllerBusyTime, "counter", nvmeSmartLogText, <<"controller", "busy", "time">>, path),
      makeMetric(collector.nvmePowerCycles, "counter", nvmeSmartLogText, <<"power", "cycles">>, path),
      makeMetric(collector.nvmePowerOnHours, "counter", nvmeSmartLogText, <<"power", "on", "hours">>, path),
      makeMetric(collector.nvmeUnsafeShutdowns, "counter", nvmeSmartLogText, <<"unsafe", "shutdowns">>, path),
      makeMetric(collector.nvmeMediaErrors, "counter", nvmeSmartLogText, <<"media", "errors">>, path),
      makeMetric(collector.nvmeNumErrLogEntries, "counter", nvmeSmartLogText, <<"num", "err", "log", "entries">>, path),
      makeMetric(collector.nvmeWarningTempTime, "counter", nvmeSmartLogText, <<"warning", "temp", "time">>, path),
      makeMetric(collector.nvmeCriticalCompTime, "counter", nvmeSmartLogText, <<"critical", "comp", "time">>, path),
      makeMetric(collector.nvmeThmTemp1TransCount, "counter", nvmeSmartLogText, <<"thm", "temp1", "trans", "count">>, path),
      makeMetric(collector.nvmeThmTemp2TransCount, "counter", nvmeSmartLogText, <<"thm", "temp2", "trans", "count">>, path),
      makeMetric(collector.nvmeThmTemp1TotalTime, "counter", nvmeSmartLogText, <<"thm", "temp3", "total", "time">>, path),
      makeMetric(collector.nvmeThmTemp2TotalTime, "counter", nvmeSmartLogText, <<"thm", "temp1", "total", "time">>, path)>>

\* the sizes floored at zero before they are sent
NamespaceSamplesFlooredAtZero(nvmeDevice, path) ==
    LET floor(n) == IF n < 0 THEN 0 ELSE n
    IN  <<MustNewConstMetric(collector.nvmeNSMaximumLBA, "gauge", 100 * floor(nvmeDevice.nsMaximumLBA),
                             <<path, nvmeDevice.nsController>>),
          MustNewConstMetric(collector.nvmeNSUsedBytes, "gauge", 100 * floor(nvmeDevice.nsUsedBytes),
                             <<path, nvmeDevice.nsController>>),
          MustNewConstMetric(collector.nvmeNSSectorSize, "gauge", 100 * floor(nvmeDevice.nsSectorSize),
                             <<path, nvmeDevice.nsController>>),
          MustNewConstMetric(collector.nvmeNSPhysicalSize, "gauge", 100 * floor(nvmeDevice.nsPhysicalSize),
                             <<path, nvmeDevice.nsController>>)>>

\* lines 1008-1011: float64 of the record's sizes, in hundredths
NamespaceSamples(nvmeDevice, path) ==
    <<MustNewConstMetric(collector.nvmeNSMaximumLBA, "gauge", 100 * nvmeDevice.nsMaximumLBA,
                         <<path, nvmeDevice.nsController>>),
      MustNewConstMetric(collector.nvmeNSUsedBytes, "gauge", 100 * nvmeDevice.nsUsedBytes,
                         <<path, nvmeDevice.nsController>>),
      MustNewConstMetric(collector.nvmeNSSectorSize, "gauge", 100 * nvmeDevice.nsSectorSize,
                         <<path, nvmeDevice.nsController>>),
      MustNewConstMetric(collector.nvmeNSPhysicalSize, "gauge", 100 * nvmeDevice.nsPhysicalSize,
                         <<path, nvmeDevice.nsController>>)>>

\* lines 964-1011: everything one iteration of the smart-log loop sends
DeviceSamples(nvmeDevice, nvmeSmartLogText) ==
    LET path == nvmeDevice.devicePath
    IN  WarningSamples(nvmeSmartLogText, path)
        \o FixedSamples(nvmeSmartLogText, path)
        \o NamespaceSamples(nvmeDevice, path)

(***************************************************************************)
(* Inputs                                                                  *)
(***************************************************************************)
MaxTokens == 5

MaxSubsystems == 2

NsTokens == {DevPrefix, Nvme, <<"n">>, <<"1">>, <<"2">>, <<"9">>}

\* the names and paths handed to getControllerFromNs
NsInputs == {Concat(ts) : ts \in SeqsUpTo(NsTokens, MaxTokens)}

nvme0 == Nvme \o <<"0">>

nvme3 == Nvme \o <<"3">>

nvme9 == Nvme \o <<"9">>

ns9n1 == NsEntry(Nvme \o <<"9", "n", "1">>, 137, 138, 512, 268)

ns3n1 == NsEntry(Nvme \o <<"3", "n", "1">>, 960, 748, 4096, 187)

ns3n2 == NsEntry(Nvme \o <<"3", "n", "2">>, 961, 749, 512, 188)

\* a namespace whose name holds no controller token
nsGeneric == NsEntry(<<"n", "g", "9", "n", "1">>, 1, 2, 3, 4)

\* the Namespaces key of a subsystem: absent, or one of these arrays
SubsystemNamespaceArrays == {<< >>, <<ns9n1>>, <<ns9n1, ns3n1>>, <<nsGeneric>>}

\* the Controllers key of a subsystem: absent, or one of these arrays
SubsystemControllerArrays ==
    {<< >>,
     <<CtlEntry(nvme3, <<ns3n1>>)>>,
     <<CtlEntry(nvme0, << >>), CtlEntry(nvme3, <<ns3n1, ns3n2>>)>>,
     <<CtlEntry(nvme9, <<ns9n1>>)>>,
     <<CtlEntry(EmptyText, << >>)>>,
     <<CtlEntry(EmptyText, <<ns3n1>>)>>}

SubsystemEntries ==
    {SubsysEntry(TRUE, n, TRUE, c) : n \in SubsystemNamespaceArrays, c \in SubsystemControllerArrays}
    \cup {SubsysEntry(FALSE, << >>, TRUE, c) : c \in SubsystemControllerArrays}
    \cup {SubsysEntry(TRUE, n, FALSE, << >>) : n \in SubsystemNamespaceArrays}
    \cup {SubsysEntry(FALSE, << >>, FALSE, << >>)}

flat0 == FlatDevice(DevPrefix \o Nvme \o <<"0", "n", "1">>, 0, 0, 0, 0)

\* the entry of TestGetDeviceListV1, which carries size fields
flat0Sized == FlatDevice(DevPrefix \o Nvme \o <<"0", "n", "1">>, -21, -22, 512, 187)

flat4 == FlatDevice(DevPrefix \o Nvme \o <<"4", "n", "1">>, 0, 0, 0, 0)

flatGeneric == FlatDevice(DevPrefix \o <<"n", "g", "0">>, 0, 0, 0, 0)

FlatDeviceArrays ==
    {<< >>, <<flat0>>, <<flat0Sized>>, <<flat4, flat0>>, <<flat0, flat4>>,
     <<flatGeneric>>, <<BareDevice>>, <<BareDevice, flat4>>}

\* the documents handed to getDeviceList
ListDocs ==
    {ListDoc(<<HierDevice(subs)>>) : subs \in SeqsUpTo(SubsystemEntries, MaxSubsystems)}
    \cup {ListDoc(<<flat0, HierDevice(<<sub>>)>>) : sub \in SubsystemEntries}
    \cup {ListDoc(ds) : ds \in FlatDeviceArrays}
    \cup {InvalidDoc}

MaxSensorField == 9

MaxKelvin == 400

\* the values of the temperature_scale flag: the three documented ones and
\* two that main does not reject
ScaleFlags == {"celsius", "fahrenheit", "kelvin", "rankine", "Celsius"}

\* the members of a nested critical_warning
WarningMembers ==
    (<<"value">> :> JsonNumber(1)) @@ (<<"available", "spare">> :> JsonNumber(2))
    @@ (<<"temp", "threshold">> :> JsonNumber(3)) @@ (<<"reliability", "degraded">> :> JsonNumber(4))
    @@ (<<"ro">> :> JsonNumber(5)) @@ (<<"vmbu", "failed">> :> JsonNumber(6))
    @@ (<<"pmr", "ro">> :> JsonNumber(7))

\* the critical_warning key: absent, a number, an object, an object with one member
WarningChoices ==
    {<< >>,
     <<"critical", "warning">> :> JsonNumber(9),
     <<"critical", "warning">> :> JsonObject(WarningMembers),
     <<"critical", "warning">> :> JsonObject(<<"value">> :> JsonNumber(1))}

SensorIndex(key) == CHOOSE i \in 1..MaxSensorField : SensorField(i) = key

\* temperature_sensor_i = 300 + i Kelvin for the i of S
SensorKeys(S) == [key \in {SensorField(i) : i \in S} |-> JsonNumber(300 + SensorIndex(key))]

\* the remaining keys: none, or the ones a drive reports
FixedChoices ==
    {<< >>,
     (<<"temperature">> :> JsonNumber(296)) @@ (<<"avail", "spare">> :> JsonNumber(100))
     @@ (<<"percent", "used">> :> JsonNumber(5)) @@ (<<"power", "cycles">> :> JsonNumber(7))
     @@ (<<"warning", "temp", "time">> :> JsonNumber(8))
     @@ (<<"thm", "temp1", "total", "time">> :> JsonNumber(11))
     @@ (<<"thm", "temp2", "total", "time">> :> JsonNumber(22)),
     (<<"spare", "thresh">> :> JsonNumber(10)) @@ (<<"media", "errors">> :> JsonNumber(2))
     @@ (<<"thm", "temp3", "total", "time">> :> JsonNumber(33))}

\* the smart-log documents
SmartLogs ==
    {w @@ SensorKeys(S) @@ f : w \in WarningChoices, S \in SUBSET (1..MaxSensorField), f \in FixedChoices}

\* a record of the flat generation and one of the hierarchical ones
SampleDevices ==
    {nvmeNamespace(DevPrefix \o Nvme \o <<"0", "n", "1">>, nvme0, -1, -1, -1, -1),
     nvmeNamespace(DevPrefix \o Nvme \o <<"3", "n", "1">>, nvme3, 960, 748, 4096, 187)}

\* the keys makeMetric is called with
MetricFields ==
    {<<"temperature">>, SensorField(1), <<"temp", "threshold">>, <<"warning", "temp", "time">>}

MaxPolls == 2

docMixed ==
    ListDoc(<<HierDevice(<<SubsysEntry(TRUE, <<ns9n1>>, TRUE, <<CtlEntry(nvme0, << >>)>>),
                           SubsysEntry(TRUE, << >>, TRUE, <<CtlEntry(nvme3, <<ns3n1>>)>>)>>)>>)

\* two namespaces of one controller
docShared ==
    ListDoc(<<HierDevice(<<SubsysEntry(FALSE, << >>, TRUE, <<CtlEntry(nvme3, <<ns3n1, ns3n2>>)>>)>>)>>)

\* a flat list whose first and last entries share a controller
docInterleaved ==
    ListDoc(<<FlatDevice(DevPrefix \o Nvme \o <<"3", "n", "1">>, 0, 0, 0, 0),
              FlatDevice(DevPrefix \o Nvme \o <<"9", "n", "1">>, 0, 0, 0, 0),
              FlatDevice(DevPrefix \o Nvme \o <<"3", "n", "2">>, 0, 0, 0, 0)>>)

\* subsystems without any namespace
docNoNamespace == ListDoc(<<HierDevice(<<SubsysEntry(TRUE, << >>, TRUE, <<CtlEntry(nvme0, << >>)>>)>>)>>)

\* what `nvme list -o json` prints, or its failure
ListOutcomes ==
    {[err |-> TRUE, text |-> InvalidDoc]}
    \cup {[err |-> FALSE, text |-> d] :
             d \in {docMixed, docShared, docInterleaved, docNoNamespace, ListDoc(<<flat0Sized>>), InvalidDoc}}

\* what `nvme id-ctrl -o json` prints, or its failure; text that is not JSON
\* is still searched by gjson.Get, which may or may not find the key in it
IdCtrlOutcomes ==
    {[err |-> TRUE, valid |-> FALSE, json |-> << >>],
     [err |-> FALSE, valid |-> TRUE, json |-> <<"tnvmcap">> :> JsonNumber(1000)],
     [err |-> FALSE, valid |-> TRUE, json |-> <<"tnvmcap">> :> JsonNumber(2000)],
     [err |-> FALSE, valid |-> FALSE, json |-> << >>],
     [err |-> FALSE, valid |-> FALSE, json |-> <<"tnvmcap">> :> JsonNumber(1000)]}

\* what `nvme smart-log -o json` prints, or its failure
SmartLogOutcomes ==
    {[err |-> TRUE, valid |-> FALSE, json |-> << >>],
     [err |-> FALSE, valid |-> FALSE, json |-> << >>],
     [err |-> FALSE, valid |-> TRUE,
      json |-> (<<"critical", "warning">> :> JsonObject(WarningMembers))
               @@ SensorKeys(1..MaxSensorField) @@ (<<"temperature">> :> JsonNumber(296))],
     [err |-> FALSE, valid |-> TRUE,
      json |-> (<<"critical", "warning">> :> JsonNumber(9)) @@ (<<"temperature">> :> JsonNumber(300))]}

(***************************************************************************)
(* Single calls of the pure functions                                      *)
(***************************************************************************)
\* a channel nobody sends on; Describe not running
NoSend == [pending |-> FALSE, value |-> << >>, closed |-> FALSE]

NoDescribe ==
    /\ describePc = "idle"
    /\ sent = 0
    /\ descCh = NoSend
    /\ rangePc = "idle"
    /\ received = << >>

CollectIdle(scale) ==
    /\ pc = "idle"
    /\ temperatureScale = scale
    /\ nvmeListOutput = InvalidDoc
    /\ nvmeDeviceList = << >>
    /\ id = 0
    /\ dev = 0
    /\ controllerCapacity = << >>
    /\ ch = << >>
    /\ calls = << >>
    /\ polls = 0
    /\ parses = << >>

Idle(scale) == CollectIdle(scale) /\ NoDescribe

NoCall ==
    /\ fn = "none"
    /\ arg = << >>
    /\ ret = << >>
    /\ returned = FALSE

InitNs ==
    /\ Idle("celsius")
    /\ fn = "getControllerFromNs"
    /\ arg \in NsInputs
    /\ ret = Fatal
    /\ returned = FALSE

CallGetControllerFromNs ==
    /\ fn = "getControllerFromNs"
    /\ ~returned
    /\ ret' = getControllerFromNs(arg)
    /\ returned' = TRUE
    /\ UNCHANGED <<fn, arg>>
    /\ UNCHANGED collectVars
    /\ UNCHANGED describeVars

NextNs == CallGetControllerFromNs

SpecNs == InitNs /\ [][NextNs]_vars

InitList ==
    /\ Idle("celsius")
    /\ fn = "getDeviceList"
    /\ arg \in ListDocs
    /\ ret = FatalList
    /\ returned = FALSE

CallGetDeviceList ==
    /\ fn = "getDeviceList"
    /\ ~returned
    /\ ret' = getDeviceList(arg)
    /\ returned' = TRUE
    /\ UNCHANGED <<fn, arg>>
    /\ UNCHANGED collectVars
    /\ UNCHANGED describeVars

NextList == CallGetDeviceList

SpecList == InitList /\ [][NextList]_vars

InitMetric ==
    /\ \E scale \in ScaleFlags : Idle(scale)
    /\ fn = "makeMetric"
    /\ arg \in [substring : MetricFields, kelvin : 0..MaxKelvin]
    /\ ret = << >>
    /\ returned = FALSE

CallMakeMetric ==
    /\ fn = "makeMetric"
    /\ ~returned
    /\ ret' = makeMetric(collector.nvmeTemperature, "gauge",
                         arg.substring :> JsonNumber(arg.kelvin), arg.substring,
                         DevPrefix \o Nvme \o <<"0", "n", "1">>)
    /\ returned' = TRUE
    /\ UNCHANGED <<fn, arg>>
    /\ UNCHANGED collectVars
    /\ UNCHANGED describeVars

NextMetric == CallMakeMetric

SpecMetric == InitMetric /\ [][NextMetric]_vars

InitLog ==
    /\ \E scale \in ScaleFlags \ {"Celsius"} : Idle(scale)
    /\ fn = "smart-log"
    /\ arg \in [nvmeDevice : SampleDevices, nvmeSmartLogText : SmartLogs]
    /\ ret = << >>
    /\ returned = FALSE

\* one iteration of the smart-log loop of Collect on a valid document
SendDeviceSamples ==
    /\ fn = "smart-log"
    /\ ~returned
    /\ ret' = DeviceSamples(arg.nvmeDevice, arg.nvmeSmartLogText)
    /\ returned' = TRUE
    /\ UNCHANGED <<fn, arg>>
    /\ UNCHANGED collectVars
    /\ UNCHANGED describeVars

NextLog == SendDeviceSamples

SpecLog == InitLog /\ [][NextLog]_vars

(***************************************************************************)
(* Describe, run as in TestNvmeCollector_Describe: a goroutine calls        *)
(* Describe and then closes the unbuffered channel, the test ranges over    *)
(* the channel.  A send blocks until the consumer receives it.              *)
(***************************************************************************)
\* lines 797-832: the descriptors in the order of the sends
DescribeSends ==
    <<collector.nvmeCriticalWarning, collector.nvmeAvailableSpare, collector.nvmeTempThreshold,
      collector.nvmeReliabilityDegraded, collector.nvmeRO, collector.nvmeVMBUFailed,
      collector.nvmePMRRO, collector.nvmeTemperature, collector.nvmeAvailSpare,
      collector.nvmeSpareThresh, collector.nvmePercentUsed,
      collector.nvmeEnduranceGrpCriticalWarningSummary, collector.nvmeDataUnitsRead,
      collector.nvmeDataUnitsWritten, collector.nvmeHostReadCommands,
      collector.nvmeHostWriteCommands, collector.nvmeControllerBusyTime,
      collector.nvmePowerCycles, collector.nvmePowerOnHours, collector.nvmeUnsafeShutdowns,
      collector.nvmeMediaErrors, collector.nvmeNumErrLogEntries, collector.nvmeWarningTempTime,
      collector.nvmeCriticalCompTime>>
    \o [i \in 1..maxTempSensors |-> collector.nvmeTemperatureSensors[(i - 1) + 1]]
    \o <<collector.nvmeThmTemp1TransCount, collector.nvmeThmTemp2TransCount,
         collector.nvmeThmTemp1TotalTime, collector.nvmeThmTemp2TotalTime,
         collector.nvmeNSPhysicalSize, collector.nvmeNSMaximumLBA, collector.nvmeNSUsedBytes,
         collector.nvmeNSSectorSize, collector.nvmeTotalCapacity>>

InitDescribe ==
    /\ \E scale \in ScaleFlags : CollectIdle(scale)
    /\ NoCall
    /\ describePc = "send"
    /\ sent = 0
    /\ descCh = NoSend
    /\ rangePc = "range"
    /\ received = << >>

\* ch <- c.nvme...: the send is pending until the consumer takes it
DescribeSend ==
    /\ describePc = "send"
    /\ sent < Len(DescribeSends)
    /\ ~descCh.pending
    /\ descCh' = [pending |-> TRUE, value |-> DescribeSends[sent + 1], closed |-> FALSE]
    /\ UNCHANGED <<describePc, sent, rangePc, received>>
    /\ UNCHANGED collectVars
    /\ UNCHANGED harnessVars

\* for desc := range ch: one receive, which lets the pending send complete
RangeReceive ==
    /\ rangePc = "range"
    /\ descCh.pending
    /\ received' = Append(received, descCh.value)
    /\ descCh' = NoSend
    /\ sent' = sent + 1
    /\ UNCHANGED <<describePc, rangePc>>
    /\ UNCHANGED collectVars
    /\ UNCHANGED harnessVars

\* line 833: Describe returns after its last send
DescribeReturn ==
    /\ describePc = "send"
    /\ sent = Len(DescribeSends)
    /\ describePc' = "close"
    /\ UNCHANGED <<sent, descCh, rangePc, received>>
    /\ UNCHANGED collectVars
    /\ UNCHANGED harnessVars

\* close(ch)
CloseChannel ==
    /\ describePc = "close"
    /\ descCh' = [descCh EXCEPT !.closed = TRUE]
    /\ describePc' = "done"
    /\ UNCHANGED <<sent, rangePc, received>>
    /\ UNCHANGED collectVars
    /\ UNCHANGED harnessVars

\* the range ends on the closed channel
RangeEnd ==
    /\ rangePc = "range"
    /\ descCh.closed
    /\ ~descCh.pending
    /\ rangePc' = "done"
    /\ UNCHANGED <<describePc, sent, descCh, received>>
    /\ UNCHANGED collectVars
    /\ UNCHANGED harnessVars

NextDescribe == DescribeSend \/ RangeReceive \/ DescribeReturn \/ CloseChannel \/ RangeEnd

\* both goroutines are runnable whenever their step is enabled and the Go
\* scheduler runs every runnable goroutine
SpecDescribe ==
    /\ InitDescribe
    /\ [][NextDescribe]_vars
    /\ WF_vars(DescribeSend \/ DescribeReturn \/ CloseChannel)
    /\ WF_vars(RangeReceive \/ RangeEnd)

(***************************************************************************)
(* Collect, one action per external command: the command, and the code     *)
(* that runs on its output up to the next command.  log.Fatalf ends the    *)
(* process: pc = "fatal" is final.                                         *)
(***************************************************************************)
Command(cmd, target, out) == [cmd |-> cmd, target |-> target, out |-> out]

Init ==
    /\ \E scale \in {"celsius", "fahrenheit", "kelvin"} : Idle(scale)
    /\ NoCall

\* lines 938-943: `nvme list`, then getDeviceList; a new call of Collect has
\* a new channel and new locals
RunNvmeList ==
    /\ pc \in {"idle", "done"}
    /\ polls < MaxPolls
    /\ \E out \in ListOutcomes :
          LET parsed == getDeviceList(out.text)
          IN  /\ calls' = <<Command("list", EmptyText, out)>>
              /\ polls' = polls + 1
              /\ ch' = << >>
              /\ controllerCapacity' = << >>
              /\ id' = 0
              /\ dev' = 0
              /\ IF out.err
                 THEN /\ pc' = "fatal"
                      /\ UNCHANGED <<nvmeListOutput, nvmeDeviceList, parses>>
                 ELSE /\ nvmeListOutput' = out.text
                      /\ IF parsed.fatal
                         THEN /\ pc' = "fatal"
                              /\ UNCHANGED <<nvmeDeviceList, parses>>
                         ELSE /\ nvmeDeviceList' = parsed.list
                              /\ parses' = Append(parses, <<out.text, parsed.list>>)
                              /\ pc' = IF Len(parsed.list) = 0 THEN "totals" ELSE "enrich"
    /\ UNCHANGED temperatureScale
    /\ UNCHANGED harnessVars
    /\ UNCHANGED describeVars

\* the capacity assigned to every record of the controller just looked up
RunIdCtrlPerController ==
    /\ pc = "enrich"
    /\ \E out \in IdCtrlOutcomes :
          /\ calls' = Append(calls, Command("id-ctrl", DevPrefix \o nvmeDeviceList[id + 1].nsController, out))
          /\ IF out.err
             THEN /\ pc' = "fatal"
                  /\ UNCHANGED <<nvmeDeviceList, id>>
             ELSE /\ nvmeDeviceList' =
                        [i \in 1..Len(nvmeDeviceList) |->
                            IF nvmeDeviceList[i].nsController = nvmeDeviceList[id + 1].nsController
                            THEN [nvmeDeviceList[i] EXCEPT !.nsTotalCapacity = Int_(Get(out.json, <<"tnvmcap">>))]
                            ELSE nvmeDeviceList[i]]
                  /\ id' = id + 1
                  /\ pc' = IF id + 1 = Len(nvmeDeviceList) THEN "logs" ELSE "enrich"
    /\ UNCHANGED <<temperatureScale, nvmeListOutput, dev, controllerCapacity, ch, polls, parses>>
    /\ UNCHANGED harnessVars
    /\ UNCHANGED describeVars

\* the lookup left out for a controller that an earlier record has looked up
RunIdCtrlOncePerController ==
    /\ pc = "enrich"
    /\ \E out \in IdCtrlOutcomes :
          LET seen == {i \in 1..id : nvmeDeviceList[i].nsController = nvmeDeviceList[id + 1].nsController}
          IN  /\ calls' = IF seen = {} THEN Append(calls, Command("id-ctrl", DevPrefix \o nvmeDeviceList[id + 1].nsController, out))
                          ELSE calls
              /\ IF seen = {} /\ out.err
                 THEN /\ pc' = "fatal"
                      /\ UNCHANGED <<nvmeDeviceList, id>>
                 ELSE /\ nvmeDeviceList' =
                            [nvmeDeviceList EXCEPT ![id + 1].nsTotalCapacity =
                                IF seen = {} THEN Int_(Get(out.json, <<"tnvmcap">>))
                                ELSE nvmeDeviceList[SetMin(seen)].nsTotalCapacity]
                      /\ id' = id + 1
                      /\ pc' = IF id + 1 = Len(nvmeDeviceList) THEN "logs" ELSE "enrich"
    /\ UNCHANGED <<temperatureScale, nvmeListOutput, dev, controllerCapacity, ch, polls, parses>>
    /\ UNCHANGED harnessVars
    /\ UNCHANGED describeVars

\* the error of the command ignored
RunIdCtrlIgnoringError ==
    /\ pc = "enrich"
    /\ \E out \in IdCtrlOutcomes :
          /\ calls' = Append(calls, Command("id-ctrl", DevPrefix \o nvmeDeviceList[id + 1].nsController, out))
          /\ nvmeDeviceList' =
                [nvmeDeviceList EXCEPT ![id + 1].nsTotalCapacity = Int_(Get(out.json, <<"tnvmcap">>))]
          /\ id' = id + 1
          /\ pc' = IF id + 1 = Len(nvmeDeviceList) THEN "logs" ELSE "enrich"
    /\ UNCHANGED <<temperatureScale, nvmeListOutput, dev, controllerCapacity, ch, polls, parses>>
    /\ UNCHANGED harnessVars
    /\ UNCHANGED describeVars

\* lines 945-951: one iteration of the id-ctrl loop, for the record at index id
RunIdCtrl ==
    /\ pc = "enrich"
    /\ \E out \in IdCtrlOutcomes :
          /\ calls' = Append(calls, Command("id-ctrl", DevPrefix \o nvmeDeviceList[id + 1].nsController, out))
          /\ IF out.err
             THEN /\ pc' = "fatal"
                  /\ UNCHANGED <<nvmeDeviceList, id>>
             ELSE /\ nvmeDeviceList' =
                        [nvmeDeviceList EXCEPT ![id + 1].nsTotalCapacity = Int_(Get(out.json, <<"tnvmcap">>))]
                  /\ id' = id + 1
                  /\ pc' = IF id + 1 = Len(nvmeDeviceList) THEN "logs" ELSE "enrich"
    /\ UNCHANGED <<temperatureScale, nvmeListOutput, dev, controllerCapacity, ch, polls, parses>>
    /\ UNCHANGED harnessVars
    /\ UNCHANGED describeVars

\* the value of a key already in the map kept
MapStoreFirstWins(map, key, value) ==
    [k \in DOMAIN map \cup {key} |-> IF k \in DOMAIN map THEN map[k] ELSE value]

\* controllerCapacity[key] = value
MapStore(map, key, value) == [k \in DOMAIN map \cup {key} |-> IF k = key THEN value ELSE map[k]]

\* the validity check made only after the critical-warning samples are sent
RunSmartLogLateCheck ==
    /\ pc = "logs"
    /\ \E out \in SmartLogOutcomes :
          LET nvmeDevice == nvmeDeviceList[dev + 1]
          IN  /\ calls' = Append(calls, Command("smart-log", nvmeDevice.devicePath, out))
              /\ IF out.err \/ ~out.valid
                 THEN /\ pc' = "fatal"
                      /\ ch' = IF out.err THEN ch
                               ELSE ch \o WarningSamples(out.json, nvmeDevice.devicePath)
                      /\ UNCHANGED <<controllerCapacity, dev>>
                 ELSE /\ ch' = ch \o DeviceSamples(nvmeDevice, out.json)
                      /\ controllerCapacity' =
                            MapStore(controllerCapacity, nvmeDevice.nsController, nvmeDevice.nsTotalCapacity)
                      /\ dev' = dev + 1
                      /\ pc' = IF dev + 1 = Len(nvmeDeviceList) THEN "totals" ELSE "logs"
    /\ UNCHANGED <<temperatureScale, nvmeListOutput, nvmeDeviceList, id, polls, parses>>
    /\ UNCHANGED harnessVars
    /\ UNCHANGED describeVars

\* lines 953-1013: one iteration of the smart-log loop, for the record at index dev
RunSmartLog ==
    /\ pc = "logs"
    /\ \E out \in SmartLogOutcomes :
          LET nvmeDevice == nvmeDeviceList[dev + 1]
          IN  /\ calls' = Append(calls, Command("smart-log", nvmeDevice.devicePath, out))
              /\ IF out.err \/ ~out.valid
                 THEN /\ pc' = "fatal"
                      /\ UNCHANGED <<ch, controllerCapacity, dev>>
                 ELSE /\ ch' = ch \o DeviceSamples(nvmeDevice, out.json)
                      /\ controllerCapacity' =
                            MapStore(controllerCapacity, nvmeDevice.nsController, nvmeDevice.nsTotalCapacity)
                      /\ dev' = dev + 1
                      /\ pc' = IF dev + 1 = Len(nvmeDeviceList) THEN "totals" ELSE "logs"
    /\ UNCHANGED <<temperatureScale, nvmeListOutput, nvmeDeviceList, id, polls, parses>>
    /\ UNCHANGED harnessVars
    /\ UNCHANGED describeVars

\* the orders in which a range over a Go map may visit its keys
KeyOrders(map) ==
    {order \in [1..Cardinality(DOMAIN map) -> DOMAIN map] :
        \A i, j \in 1..Cardinality(DOMAIN map) : i # j => order[i] # order[j]}

\* lines 1014-1017: the total-capacity samples, then the return
SendTotals ==
    /\ pc = "totals"
    /\ \E order \in KeyOrders(controllerCapacity) :
          ch' = ch \o [i \in 1..Len(order) |->
                          MustNewConstMetric(collector.nvmeTotalCapacity, "gauge",
                                             100 * controllerCapacity[order[i]], <<order[i]>>)]
    /\ pc' = "done"
    /\ UNCHANGED <<temperatureScale, nvmeListOutput, nvmeDeviceList, id, dev,
                   controllerCapacity, calls, polls, parses>>
    /\ UNCHANGED harnessVars
    /\ UNCHANGED describeVars

Next == RunNvmeList \/ RunIdCtrl \/ RunSmartLog \/ SendTotals

Spec == Init /\ [][Next]_vars

(***************************************************************************)
(* What the documents say, read off the document itself                    *)
(***************************************************************************)
\* s = X nvme N n M : N is a digits long and starts after the token at p,
\* M is every character after the n
NsFormAt(s, p, a) ==
    /\ p >= 1 /\ a >= 1
    /\ p + 4 + a < Len(s)
    /\ SubSeq(s, p, p + 3) = Nvme
    /\ IsDigits(SubSeq(s, p + 4, p + 3 + a))
    /\ s[p + 4 + a] = "n"
    /\ IsDigits(SubSeq(s, p + 5 + a, Len(s)))

WellFormedName(s) == \E p \in 1..Len(s), a \in 1..Len(s) : NsFormAt(s, p, a)

ControllerToken(s) ==
    LET pa == CHOOSE pa \in (1..Len(s)) \X (1..Len(s)) : NsFormAt(s, pa[1], pa[2])
    IN  SubSeq(s, pa[1], pa[1] + 3 + pa[2])

HasNvmeDigit(s) ==
    \E p \in 1..Len(s) : p + 4 <= Len(s) /\ SubSeq(s, p, p + 3) = Nvme /\ s[p + 4] \in Digit

DocRecord(path, controller, e) ==
    [devicePath |-> path, nsController |-> controller, nsPhysicalSize |-> e.PhysicalSize,
     nsTotalCapacity |-> 0, nsMaximumLBA |-> e.MaximumLBA, nsUsedBytes |-> e.UsedBytes,
     nsSectorSize |-> e.SectorSize]

SubsystemsOf(d) == d.Subsystems

DocSubsystems(doc) == Concat(Map(SubsystemsOf, SelectSeq(doc.Devices, HasSubsystems)))

\* the namespaces listed directly under a subsystem
BareOf(sub) == IF sub.hasNamespaces THEN sub.Namespaces ELSE << >>

\* the <<controller, namespace>> pairs listed under the controllers of a subsystem
NestedOf(sub) ==
    IF sub.hasControllers
    THEN Concat([j \in 1..Len(sub.Controllers) |->
                    [i \in 1..Len(sub.Controllers[j].Namespaces) |->
                        <<sub.Controllers[j].Controller, sub.Controllers[j].Namespaces[i]>>]])
    ELSE << >>

DocBare(doc) == Concat(Map(BareOf, DocSubsystems(doc)))

DocNested(doc) == Concat(Map(NestedOf, DocSubsystems(doc)))

DocControllers(doc) == Concat(Map(ControllersOf, SelectSeq(DocSubsystems(doc), HasControllers)))

BareRecord(e) == DocRecord(DevPrefix \o e.NameSpace, ControllerToken(e.NameSpace), e)

NestedRecord(ce) == DocRecord(DevPrefix \o ce[2].NameSpace, ce[1], ce[2])

\* every name the parse has to infer from is well formed, every controller is named
WellFormedDoc(doc) ==
    /\ doc.valid
    /\ \A i \in 1..Len(DocBare(doc)) : WellFormedName(DocBare(doc)[i].NameSpace)
    /\ \A i \in 1..Len(DocControllers(doc)) : DocControllers(doc)[i].Controller # EmptyText
    /\ \A i \in 1..Len(doc.Devices) :
          doc.Devices[i].hasDevicePath => WellFormedName(doc.Devices[i].DevicePath)

Hierarchical(doc) ==
    /\ Len(doc.Devices) >= 1
    /\ \A i \in 1..Len(doc.Devices) : doc.Devices[i].hasSubsystems /\ ~doc.Devices[i].hasDevicePath

Flat(doc) ==
    /\ Len(doc.Devices) >= 1
    /\ \A i \in 1..Len(doc.Devices) : ~doc.Devices[i].hasSubsystems /\ doc.Devices[i].hasDevicePath

ListReturned == fn = "getDeviceList" /\ returned

(***************************************************************************)
(* C1: on a well-formed document that holds exactly one device,            *)
(* getDeviceList returns exactly one record: path "/dev/"+NameSpace,       *)
(* controller inferred from the name and the document's four sizes when    *)
(* the namespace is listed under a subsystem; the same with the declared   *)
(* controller name when it is listed under a controller; the DevicePath,   *)
(* the controller inferred from it and -1 for the four sizes for a flat    *)
(* entry, whatever size fields that entry carries.                         *)
(***************************************************************************)
OneDevicePerShape ==
    ListReturned /\ WellFormedDoc(arg) =>
        /\ Hierarchical(arg) /\ Len(DocBare(arg)) = 1 /\ Len(DocNested(arg)) = 0
              => ret = ReturnsList(<<BareRecord(DocBare(arg)[1])>>)
        /\ Hierarchical(arg) /\ Len(DocBare(arg)) = 0 /\ Len(DocNested(arg)) = 1
              => ret = ReturnsList(<<NestedRecord(DocNested(arg)[1])>>)
        /\ Flat(arg) /\ Len(arg.Devices) = 1
              => ret = ReturnsList(<<[devicePath |-> arg.Devices[1].DevicePath,
                                      nsController |-> ControllerToken(arg.Devices[1].DevicePath),
                                      nsPhysicalSize |-> -1, nsTotalCapacity |-> 0,
                                      nsMaximumLBA |-> -1, nsUsedBytes |-> -1,
                                      nsSectorSize |-> -1]>>)

\* a flat entry that carries size fields has been parsed
OneDevicePerShapeSeen ==
    /\ ListReturned /\ WellFormedDoc(arg)
    /\ Flat(arg) /\ Len(arg.Devices) = 1
    /\ arg.Devices[1].SectorSize = 512
    /\ ~ret.fatal /\ Len(ret.list) = 1 /\ ret.list[1].nsSectorSize = -1

(***************************************************************************)
(* C2: a document that mixes the two hierarchical shapes, subsystem by     *)
(* subsystem.                                                              *)
(***************************************************************************)
PureSubsystem(sub) == Len(BareOf(sub)) = 0 \/ Len(NestedOf(sub)) = 0

SubsystemRecords(sub) == Map(BareRecord, BareOf(sub)) \o Map(NestedRecord, NestedOf(sub))

Mixed(doc) ==
    /\ Hierarchical(doc)
    /\ \A i \in 1..Len(DocSubsystems(doc)) : PureSubsystem(DocSubsystems(doc)[i])
    /\ Len(DocBare(doc)) >= 1
    /\ Len(DocNested(doc)) >= 1

\* C2 as claimed: one record per namespace, each with its own controller, in
\* the order in which the document lists the namespaces.
MixedInDocumentOrder ==
    ListReturned /\ WellFormedDoc(arg) /\ Mixed(arg) =>
        ret = ReturnsList(Concat(Map(SubsystemRecords, DocSubsystems(arg))))

\* C2 as amended: one record per namespace, each with its own controller; the
\* records of the namespaces listed directly under subsystems come first, in
\* document order, and those of the controller-nested namespaces follow, in
\* document order.
MixedBareThenNested ==
    ListReturned /\ WellFormedDoc(arg) /\ Mixed(arg) =>
        ret = ReturnsList(Map(BareRecord, DocBare(arg)) \o Map(NestedRecord, DocNested(arg)))

\* the controller-nested subsystem comes first in the document
MixedBareThenNestedSeen ==
    /\ ListReturned /\ WellFormedDoc(arg) /\ Mixed(arg)
    /\ Len(NestedOf(DocSubsystems(arg)[1])) >= 1
    /\ ~ret.fatal /\ Len(ret.list) = 2
    /\ ret.list[1].nsController = nvme9 /\ ret.list[2].nsController = nvme3

(***************************************************************************)
(* C9: getControllerFromNs returns nvme<N>, with every digit of N, for an  *)
(* input [prefix]nvme<N>n<M>; "/dev/nvme2n1" gives nvme2 and "nvme9n1"     *)
(* gives nvme9; an input with no nvme token followed by a digit is fatal.  *)
(***************************************************************************)
ControllerInferred ==
    fn = "getControllerFromNs" /\ returned =>
        /\ \A p \in 1..Len(arg), a \in 1..Len(arg) :
              NsFormAt(arg, p, a) => ret = Returns(SubSeq(arg, p, p + 3 + a))
        /\ ~HasNvmeDigit(arg) => ret = Fatal
        /\ arg = DevPrefix \o Nvme \o <<"2", "n", "1">> => ret = Returns(Nvme \o <<"2">>)
        /\ arg = Nvme \o <<"9", "n", "1">> => ret = Returns(Nvme \o <<"9">>)

\* a two-digit controller number has been inferred
ControllerInferredSeen ==
    /\ fn = "getControllerFromNs" /\ returned
    /\ NsFormAt(arg, 1, 2)
    /\ ~ret.fatal /\ Len(ret.value) = 6

(***************************************************************************)
(* What a smart-log document says, read off the document itself            *)
(***************************************************************************)
LogSent == fn = "smart-log" /\ returned

DeviceLabel == <<"device">>

\* the seven gauges of the critical-warning family and the member each reads
WarningTable ==
    <<<<"nvme_critical_warning", <<"value">>>>,
      <<"nvme_available_spare_critical", <<"available", "spare">>>>,
      <<"nvme_temp_threshold_exceeded", <<"temp", "threshold">>>>,
      <<"nvme_reliability_degraded", <<"reliability", "degraded">>>>,
      <<"nvme_readonly", <<"ro">>>>,
      <<"nvme_vmbu_failed", <<"vmbu", "failed">>>>,
      <<"nvme_pmr_ro", <<"pmr", "ro">>>>>>

WarningNames == {<<WarningTable[i][1]>> : i \in 1..Len(WarningTable)}

IsWarningSample(m) == m.desc.fqName \in WarningNames

IsSensorSample(m) == Len(m.desc.fqName) = 2 /\ m.desc.fqName[1] = "nvme_temperature_sensor"

CountOf(samples, Test(_)) == Cardinality({i \in 1..Len(samples) : Test(samples[i])})

MemberValue(object, key) == IF key \in DOMAIN object THEN 100 * object[key].num ELSE 0

\* a Kelvin value, in hundredths, under the scale of the flag
Scaled(hundredths, v) ==
    CASE temperatureScale = "celsius"    -> v = hundredths - 27300
      [] temperatureScale = "fahrenheit" -> 5 * (v - 3200) = 9 * (hundredths - 27315)
      [] OTHER                           -> v = hundredths

LogWarning == Get(arg.nvmeSmartLogText, <<"critical", "warning">>)

\* the largest k of 0..8 with temperature_sensor_1 .. temperature_sensor_k all present
ContiguousSensors(log) ==
    SetMax({k \in 0..8 : \A j \in 1..k : <<"temperature", "sensor", Decimal[j]>> \in DOMAIN log})

(***************************************************************************)
(* C5 as claimed: for a nested critical_warning exactly 6 gauge samples    *)
(* are read from inside the object.                                        *)
(***************************************************************************)
SixWarningGauges ==
    LogSent /\ LogWarning.type = "JSON" => CountOf(ret, IsWarningSample) = 6

(***************************************************************************)
(* C5 as amended: for a nested critical_warning exactly 7 gauge samples    *)
(* are read from inside the object (value, available_spare,                *)
(* temp_threshold, reliability_degraded, ro, vmbu_failed, pmr_ro), each    *)
(* carrying the member's value, or zero when the object lacks the member,  *)
(* in addition to the sensor samples and the fixed remaining fields.       *)
(***************************************************************************)
SevenWarningGauges ==
    LogSent /\ LogWarning.type = "JSON" =>
        /\ CountOf(ret, IsWarningSample) = 7
        /\ \A i \in 1..7 :
              ret[i] = [desc |-> [fqName |-> <<WarningTable[i][1]>>, variableLabels |-> DeviceLabel],
                        valType |-> "gauge",
                        value |-> MemberValue(LogWarning.members, WarningTable[i][2]),
                        labelValues |-> <<arg.nvmeDevice.devicePath>>]

\* a nested critical_warning with all its members has been extracted
SevenWarningGaugesSeen ==
    /\ LogSent /\ LogWarning.type = "JSON"
    /\ Cardinality(DOMAIN LogWarning.members) = 7
    /\ Len(ret) >= 7 /\ ret[7].value = 700

(***************************************************************************)
(* C6: for a nested critical_warning the sensor samples are those of       *)
(* temperature_sensor_1 .. temperature_sensor_k, k the largest of 0..8     *)
(* with all of them present: the scan stops at the first missing index,    *)
(* never passes 8, and sample i uses the descriptor of sensor i.           *)
(***************************************************************************)
ContiguousSensorSamples ==
    LogSent /\ LogWarning.type = "JSON" =>
        LET k == ContiguousSensors(arg.nvmeSmartLogText)
        IN  /\ CountOf(ret, IsSensorSample) = k
            /\ \A i \in 1..k :
                  /\ ret[7 + i].desc = [fqName |-> <<"nvme_temperature_sensor", Decimal[i]>>,
                                        variableLabels |-> DeviceLabel]
                  /\ ret[7 + i].valType = "gauge"
                  /\ Scaled(100 * arg.nvmeSmartLogText[SensorField(i)].num, ret[7 + i].value)
                  /\ ret[7 + i].labelValues = <<arg.nvmeDevice.devicePath>>

\* sensors 1 to 3 and 5 present, 4 missing: three samples
ContiguousSensorSamplesSeen ==
    /\ LogSent /\ LogWarning.type = "JSON"
    /\ \A i \in {1, 2, 3, 5} : SensorField(i) \in DOMAIN arg.nvmeSmartLogText
    /\ SensorField(4) \notin DOMAIN arg.nvmeSmartLogText
    /\ CountOf(ret, IsSensorSample) = 3

(***************************************************************************)
(* C7: for a scalar critical_warning exactly one sample of the             *)
(* critical-warning family is sent, the critical_warning gauge carrying    *)
(* the scalar; none of the nested gauges and no sensor sample is sent,     *)
(* also when the document holds temperature_sensor_N keys.                 *)
(***************************************************************************)
ScalarWarningAlone ==
    LogSent /\ LogWarning.type = "Number" =>
        /\ CountOf(ret, IsWarningSample) = 1
        /\ ret[1] = [desc |-> [fqName |-> <<"nvme_critical_warning">>, variableLabels |-> DeviceLabel],
                     valType |-> "gauge", value |-> 100 * LogWarning.num,
                     labelValues |-> <<arg.nvmeDevice.devicePath>>]
        /\ CountOf(ret, IsSensorSample) = 0

\* a scalar critical_warning beside temperature_sensor_1 and temperature_sensor_2
ScalarWarningAloneSeen ==
    /\ LogSent /\ LogWarning.type = "Number"
    /\ SensorField(1) \in DOMAIN arg.nvmeSmartLogText
    /\ SensorField(2) \in DOMAIN arg.nvmeSmartLogText
    /\ ret[1].value = 900
    /\ ret[2].desc.fqName = <<"nvme_temperature">>

(***************************************************************************)
(* C8: makeMetric on a temperature key: celsius gives K-273, fahrenheit    *)
(* gives (K-273.15)*9/5+32, kelvin and every other scale string give K;    *)
(* 296 K gives 23, 73.13 and 296.                                          *)
(***************************************************************************)
KelvinConverted ==
    fn = "makeMetric" /\ returned /\ arg.substring \in {<<"temperature">>, <<"temperature", "sensor", "1">>} =>
        /\ temperatureScale = "celsius" => ret.value = 100 * (arg.kelvin - 273)
        /\ temperatureScale = "fahrenheit" => 5 * (ret.value - 3200) = 9 * (100 * arg.kelvin - 27315)
        /\ temperatureScale \notin {"celsius", "fahrenheit"} => ret.value = 100 * arg.kelvin
        /\ arg.kelvin = 296 =>
              ret.value = CASE temperatureScale = "celsius"    -> 2300
                            [] temperatureScale = "fahrenheit" -> 7313
                            [] OTHER                           -> 29600

\* 296 K has been converted to 73.13 degrees Fahrenheit
KelvinConvertedSeen ==
    /\ fn = "makeMetric" /\ returned
    /\ arg.substring = <<"temperature">> /\ arg.kelvin = 296
    /\ temperatureScale = "fahrenheit" /\ ret.value = 7313

(***************************************************************************)
(* What a poll did, read off its commands                                  *)
(***************************************************************************)
IsIdCtrl(call) == call.cmd = "id-ctrl"

TargetOf(call) == call.target

\* the id-ctrl commands of the poll, in the order in which they ran
IdCtrlCalls == SelectSeq(calls, IsIdCtrl)

ControllerPathOf(record) == DevPrefix \o record.nsController

\* the controllers of a list, each once, in order of first appearance
RECURSIVE FirstAppearances(_, _)
FirstAppearances(list, seen) ==
    IF list = << >> THEN << >>
    ELSE IF Head(list).nsController \in seen THEN FirstAppearances(Tail(list), seen)
    ELSE <<DevPrefix \o Head(list).nsController>>
         \o FirstAppearances(Tail(list), seen \cup {Head(list).nsController})

Enriched == pc \in {"logs", "totals", "done"}

\* tnvmcap of an id-ctrl output, zero when the key is not there
Tnvmcap(out) == IF <<"tnvmcap">> \in DOMAIN out.json THEN out.json[<<"tnvmcap">>].num ELSE 0

SameControllerSameCapacity ==
    Enriched =>
        \A i, j \in 1..Len(nvmeDeviceList) :
            nvmeDeviceList[i].nsController = nvmeDeviceList[j].nsController
                => nvmeDeviceList[i].nsTotalCapacity = nvmeDeviceList[j].nsTotalCapacity

(***************************************************************************)
(* C4 as amended: after enrichment every record carries the tnvmcap that   *)
(* the lookup made for that record returned (zero when the output has no   *)
(* tnvmcap); two records with the same controller carry the same total     *)
(* capacity exactly when their two lookups returned the same value.        *)
(***************************************************************************)
OwnLookupCapacity ==
    Enriched =>
        /\ Len(IdCtrlCalls) = Len(nvmeDeviceList)
        /\ \A i \in 1..Len(nvmeDeviceList) :
              nvmeDeviceList[i].nsTotalCapacity = Tnvmcap(IdCtrlCalls[i].out)

\* two records of one controller whose lookups returned 1000 and 2000
OwnLookupCapacitySeen ==
    /\ Enriched
    /\ Len(nvmeDeviceList) = 2
    /\ nvmeDeviceList[1].nsController = nvmeDeviceList[2].nsController
    /\ nvmeDeviceList[1].nsTotalCapacity = 1000
    /\ nvmeDeviceList[2].nsTotalCapacity = 2000

NeverEmptyList ==
    ListReturned => ret.fatal \/ Len(ret.list) >= 1

(***************************************************************************)
(* What a poll had sent when it ended                                      *)
(***************************************************************************)
IsSmartLog(call) == call.cmd = "smart-log"

\* the smart-log commands of the poll, in the order in which they ran
SmartLogCalls == SelectSeq(calls, IsSmartLog)

IsTotalCapacitySample(m) == m.desc.fqName = <<"nvme_total_capacity">>

(***************************************************************************)
(* C12 as claimed: a poll that has hit a fatal condition has forwarded no  *)
(* sample, also when the failing smart-log is that of a later device.      *)
(***************************************************************************)
NoSampleOnFatal ==
    pc = "fatal" => ch = << >>

(***************************************************************************)
(* C12 as amended: a poll that has hit a fatal condition has forwarded     *)
(* exactly the complete sample groups of the devices whose smart-log was   *)
(* fetched and valid before the failing call, in list order: nothing when  *)
(* the failure is in the topology fetch, its parse or a capacity lookup,   *)
(* the groups of devices 1..k-1 when the smart-log of device k fails; no   *)
(* sample of the failing device and no total-capacity sample is sent.      *)
(***************************************************************************)
FatalAfterWholeGroups ==
    pc = "fatal" =>
        /\ ch = Concat([i \in 1..dev |-> DeviceSamples(nvmeDeviceList[i], SmartLogCalls[i].out.json)])
        /\ Len(SmartLogCalls) = 0 => ch = << >>
        /\ Len(SmartLogCalls) >= 1 => dev = Len(SmartLogCalls) - 1
        /\ \A i \in 1..Len(ch) :
              /\ ~IsTotalCapacitySample(ch[i])
              /\ \E k \in 1..dev : ch[i].labelValues[1] = nvmeDeviceList[k].devicePath

\* the smart-log of the second device failed after the first device's samples were sent
FatalAfterWholeGroupsSeen ==
    /\ pc = "fatal"
    /\ Len(SmartLogCalls) = 2 /\ dev = 1
    /\ Len(ch) >= 25
    /\ ch[1].labelValues = <<nvmeDeviceList[1].devicePath>>

\* a command that ran without error and printed text that is not valid JSON
PrintedInvalidJson(call) ==
    /\ ~call.out.err
    /\ IF call.cmd = "list" THEN ~call.out.text.valid ELSE ~call.out.valid

(***************************************************************************)
(* C13: when the text printed by any external command of the poll (nvme    *)
(* list, nvme id-ctrl, nvme smart-log) is not valid JSON, the poll is      *)
(* fatal and derives no value from that text.                              *)
(***************************************************************************)
InvalidJsonIsFatal ==
    (\E i \in 1..Len(calls) : PrintedInvalidJson(calls[i])) => pc = "fatal"

\* a command after which Collect calls log.Fatalf
CallFailed(call) ==
    \/ call.out.err
    \/ call.cmd = "list" /\ getDeviceList(call.out.text).fatal
    \/ call.cmd = "smart-log" /\ ~call.out.valid

RecordPathOf(record) == record.devicePath

(***************************************************************************)
(* C14: the commands of one poll run one after the other in this order:    *)
(* exactly one nvme list first, then the nvme id-ctrl lookups, then one    *)
(* nvme smart-log per record in list order; no smart-log runs before the   *)
(* last lookup has returned, and no command runs after a command that      *)
(* made the poll fatal.                                                    *)
(***************************************************************************)
CallsInSequence ==
    /\ pc # "idle" =>
          /\ Len(calls) >= 1 /\ calls[1].cmd = "list"
          /\ \A i \in 2..Len(calls) : calls[i].cmd \in {"id-ctrl", "smart-log"}
    /\ \A i, j \in 1..Len(calls) :
          calls[i].cmd = "smart-log" /\ calls[j].cmd = "id-ctrl" => j < i
    /\ Len(SmartLogCalls) >= 1 => Len(IdCtrlCalls) = Len(nvmeDeviceList)
    /\ Len(SmartLogCalls) <= Len(nvmeDeviceList)
    /\ Map(TargetOf, SmartLogCalls)
          = Map(RecordPathOf, SubSeq(nvmeDeviceList, 1, Len(SmartLogCalls)))
    /\ pc \in {"totals", "done"} =>
          /\ Len(IdCtrlCalls) = Len(nvmeDeviceList)
          /\ Len(SmartLogCalls) = Len(nvmeDeviceList)
    /\ \A i \in 1..(Len(calls) - 1) : ~CallFailed(calls[i])
    /\ pc = "fatal" <=> (Len(calls) >= 1 /\ CallFailed(calls[Len(calls)]))

\* a poll of three records has run its seven commands
CallsInSequenceSeen ==
    /\ pc = "done"
    /\ Len(nvmeDeviceList) = 3
    /\ Len(calls) = 7
    /\ calls[4].cmd = "id-ctrl" /\ calls[5].cmd = "smart-log"

(***************************************************************************)
(* The catalogue, read off the collector's fields                          *)
(***************************************************************************)
ScalarFields == DOMAIN collector \ {"nvmeTemperatureSensors"}

CatalogueDescs ==
    {collector[f] : f \in ScalarFields}
    \cup {collector.nvmeTemperatureSensors[i] : i \in 1..Len(collector.nvmeTemperatureSensors)}

ReceivedDescs == {received[i] : i \in 1..Len(received)}

(***************************************************************************)
(* C15: Describe, run in its own goroutine on an unbuffered channel that   *)
(* a consumer drains, never sends a nil descriptor and sends none twice;   *)
(* it returns after its last send, the channel is closed and the consumer  *)
(* ends having received every descriptor of the catalogue: each of the 33  *)
(* scalar descriptors once and the 8 temperature-sensor descriptors.       *)
(***************************************************************************)
DescribeDelivers ==
    /\ [](\A i \in 1..Len(received) :
             /\ received[i] # NilDesc
             /\ received[i] \in CatalogueDescs
             /\ \A j \in 1..Len(received) : i # j => received[i] # received[j])
    /\ [](rangePc = "done" => describePc = "done" /\ sent = Len(DescribeSends))
    /\ <>(/\ rangePc = "done"
          /\ ReceivedDescs = CatalogueDescs
          /\ Len(received) = Cardinality(ScalarFields) + maxTempSensors
          /\ Len(received) = 41)

\* the consumer has ended after the sensor descriptors and the thirty-three others
DescribeDeliversSeen ==
    /\ rangePc = "done"
    /\ descCh.closed
    /\ Len(received) = 41
    /\ received[32] = NewDesc(<<"nvme_temperature_sensor", "8">>, labelsDevice)
    /\ received[41] = collector.nvmeTotalCapacity

(***************************************************************************)
(* The fixed remaining set: metric name, kind and the document key         *)
(***************************************************************************)
\* the key each metric is named after
FixedFields ==
    <<<<"nvme_temperature", "gauge", <<"temperature">>>>,
      <<"nvme_avail_spare", "gauge", <<"avail", "spare">>>>,
      <<"nvme_spare_thresh", "gauge", <<"spare", "thresh">>>>,
      <<"nvme_percent_used", "gauge", <<"percent", "used">>>>,
      <<"nvme_endurance_grp_critical_warning_summary", "gauge",
        <<"endurance", "grp", "critical", "warning", "summary">>>>,
      <<"nvme_data_units_read", "counter", <<"data", "units", "read">>>>,
      <<"nvme_data_units_written", "counter", <<"data", "units", "written">>>>,
      <<"nvme_host_read_commands", "counter", <<"host", "read", "commands">>>>,
      <<"nvme_host_write_commands", "counter", <<"host", "write", "commands">>>>,
      <<"nvme_controller_busy_time", "counter", <<"controller", "busy", "time">>>>,
      <<"nvme_power_cycles", "counter", <<"power", "cycles">>>>,
      <<"nvme_power_on_hours", "counter", <<"power", "on", "hours">>>>,
      <<"nvme_unsafe_shutdowns", "counter", <<"unsafe", "shutdowns">>>>,
      <<"nvme_media_errors", "counter", <<"media", "errors">>>>,
      <<"nvme_num_err_log_entries", "counter", <<"num", "err", "log", "entries">>>>,
      <<"nvme_warning_temp_time", "counter", <<"warning", "temp", "time">>>>,
      <<"nvme_critical_comp_time", "counter", <<"critical", "comp", "time">>>>,
      <<"nvme_thm_temp1_trans_count", "counter", <<"thm", "temp1", "trans", "count">>>>,
      <<"nvme_thm_temp2_trans_count", "counter", <<"thm", "temp2", "trans", "count">>>>,
      <<"nvme_thm_temp1_trans_time", "counter", <<"thm", "temp1", "total", "time">>>>,
      <<"nvme_thm_temp2_trans_time", "counter", <<"thm", "temp2", "total", "time">>>>>>

\* the key Collect reads for the metric at index i of the table
KeyRead(i) ==
    CASE i = 20 -> <<"thm", "temp3", "total", "time">>
      [] i = 21 -> <<"thm", "temp1", "total", "time">>
      [] OTHER  -> FixedFields[i][3]

\* the sample of the fixed field at index i: the fixed samples come before
\* the four namespace samples that end a device's group
FixedSampleAt(i) == ret[Len(ret) - 4 - Len(FixedFields) + i]

NamedLike(m, name) == m.desc.fqName = <<name>>

SamplesNamed(name) == Cardinality({k \in 1..Len(ret) : NamedLike(ret[k], name)})

(***************************************************************************)
(* C16 as claimed: every field of the fixed remaining set yields exactly   *)
(* one sample per device, and a field absent from the document yields a    *)
(* sample of value zero, under every temperature scale.                    *)
(***************************************************************************)
AbsentFieldIsZero ==
    LogSent =>
        \A i \in 1..Len(FixedFields) :
            /\ SamplesNamed(FixedFields[i][1]) = 1
            /\ FixedFields[i][3] \notin DOMAIN arg.nvmeSmartLogText => FixedSampleAt(i).value = 0

(***************************************************************************)
(* C16 as amended: each of the 21 metrics of the fixed remaining set gets  *)
(* exactly one sample per device, of its kind and with the device label,   *)
(* whatever the generation; the sample carries the value of the key that   *)
(* Collect reads for it (thm_temp3_total_time and thm_temp1_total_time     *)
(* for the two thermal total-time metrics, the metric's own key for the    *)
(* others), and zero when that key is absent, which is not an error; the   *)
(* temperature is converted also when absent, so that an absent            *)
(* temperature gives -273 under celsius, -459.67 under fahrenheit and 0    *)
(* under any other scale.                                                  *)
(***************************************************************************)
AbsentFieldIsZeroKelvin ==
    LogSent =>
        \A i \in 1..Len(FixedFields) :
            LET m    == FixedSampleAt(i)
                read == Get(arg.nvmeSmartLogText, KeyRead(i))
                num  == IF Exists(read) THEN 100 * read.num ELSE 0
            IN  /\ SamplesNamed(FixedFields[i][1]) = 1
                /\ NamedLike(m, FixedFields[i][1])
                /\ m.valType = FixedFields[i][2]
                /\ m.desc.variableLabels = DeviceLabel
                /\ m.labelValues = <<arg.nvmeDevice.devicePath>>
                /\ IF i = 1 THEN Scaled(num, m.value) ELSE m.value = num
                /\ i = 1 /\ ~Exists(read) =>
                      m.value = CASE temperatureScale = "celsius"    -> -27300
                                  [] temperatureScale = "fahrenheit" -> -45967
                                  [] OTHER                           -> 0

\* a document without temperature has been extracted under celsius
AbsentFieldIsZeroKelvinSeen ==
    /\ LogSent
    /\ temperatureScale = "celsius"
    /\ <<"temperature">> \notin DOMAIN arg.nvmeSmartLogText
    /\ <<"thm", "temp3", "total", "time">> \in DOMAIN arg.nvmeSmartLogText
    /\ LogWarning.type = "JSON"
    /\ FixedSampleAt(1).value = -27300
    /\ FixedSampleAt(2).value = 0
    /\ FixedSampleAt(20).value = 3300

(***************************************************************************)
(* C17: in every list that getDeviceList returns the devicePath values     *)
(* are pairwise distinct, also when the document lists one namespace both  *)
(* under a subsystem and under one of its controllers.                     *)
(***************************************************************************)
DevicePathsDistinct ==
    ListReturned /\ ~ret.fatal =>
        \A i, j \in 1..Len(ret.list) :
            i # j => ret.list[i].devicePath # ret.list[j].devicePath

\* nvme followed by digits only
IsControllerToken(s) ==
    /\ Len(s) >= 5
    /\ SubSeq(s, 1, 4) = Nvme
    /\ IsDigits(SubSeq(s, 5, Len(s)))

\* the declared names of the document's controller entries
DeclaredNames(doc) == {DocControllers(doc)[i].Controller : i \in 1..Len(DocControllers(doc))}

(***************************************************************************)
(* C18: every record that getDeviceList returns has a non-empty            *)
(* nsController, in all three shapes: a declared name of the document, or  *)
(* the nvme<N> token inferred from the name or path.                       *)
(***************************************************************************)
ControllerNeverEmpty ==
    ListReturned /\ ~ret.fatal =>
        \A i \in 1..Len(ret.list) :
            /\ ret.list[i].nsController # EmptyText
            /\ Len(ret.list[i].nsController) >= 1
            /\ \/ IsControllerToken(ret.list[i].nsController)
               \/ ret.list[i].nsController \in DeclaredNames(arg)

\* records of all kinds: inferred from a bare name and declared by a controller
ControllerNeverEmptySeen ==
    /\ ListReturned /\ ~ret.fatal
    /\ Len(ret.list) = 4
    /\ Len(DocBare(arg)) = 2 /\ Len(DocNested(arg)) = 2
    /\ \A i \in 1..4 : ret.list[i].nsController # EmptyText

(***************************************************************************)
(* C20: a controller entry whose Controller is empty or missing makes      *)
(* getDeviceList fatal, also when that controller has no namespaces; no    *)
(* record is returned with an empty declared name as its controller.       *)
(***************************************************************************)
EmptyControllerIsFatal ==
    ListReturned /\ arg.valid =>
        /\ EmptyText \in DeclaredNames(arg) => ret.fatal
        /\ ~ret.fatal => \A i \in 1..Len(ret.list) : ret.list[i].nsController # EmptyText

\* a document whose only flaw is an unnamed controller without namespaces
EmptyControllerIsFatalSeen ==
    /\ ListReturned /\ arg.valid
    /\ Len(DocControllers(arg)) = 1
    /\ DocControllers(arg)[1] = CtlEntry(EmptyText, << >>)
    /\ Len(DocBare(arg)) = 1 /\ WellFormedName(DocBare(arg)[1].NameSpace)
    /\ ret.fatal

\* the record of a flat entry, read off the entry
FlatRecord(d) ==
    [devicePath |-> d.DevicePath, nsController |-> ControllerToken(d.DevicePath),
     nsPhysicalSize |-> -1, nsTotalCapacity |-> 0, nsMaximumLBA |-> -1,
     nsUsedBytes |-> -1, nsSectorSize |-> -1]

\* the records each branch yields on a well-formed document
BareBranch(doc) == Map(BareRecord, DocBare(doc))

NestedBranch(doc) == Map(NestedRecord, DocNested(doc))

FlatBranch(doc) == Map(FlatRecord, SelectSeq(doc.Devices, HasDevicePath))

AnySubsystems(doc) == \E i \in 1..Len(doc.Devices) : doc.Devices[i].hasSubsystems

(***************************************************************************)
(* C19 as claimed: the branches are tried in the order namespace under     *)
(* subsystem, namespace under controller, flat, and the first branch that  *)
(* yields a non-empty list is the only one whose records are returned.     *)
(***************************************************************************)
FirstBranchWins ==
    ListReturned /\ WellFormedDoc(arg) /\ ~ret.fatal =>
        /\ Len(BareBranch(arg)) >= 1 => ret.list = BareBranch(arg)
        /\ Len(BareBranch(arg)) = 0 /\ Len(NestedBranch(arg)) >= 1 => ret.list = NestedBranch(arg)

(***************************************************************************)
(* C19 as amended: the branches are tried in that order, but the           *)
(* namespace-under-subsystem branch never ends the parse: whenever some    *)
(* device has a Subsystems array the namespace-under-controller branch     *)
(* runs after it, appends its records to those of the first branch and     *)
(* returns, also with an empty list; the flat branch runs only when no     *)
(* device has a Subsystems array, so it never adds records to those of a   *)
(* hierarchical branch, and only it is fatal when it finds nothing.        *)
(***************************************************************************)
HierarchicalBranchesMerge ==
    ListReturned /\ WellFormedDoc(arg) =>
        IF AnySubsystems(arg)
        THEN ret = ReturnsList(BareBranch(arg) \o NestedBranch(arg))
        ELSE IF Len(FlatBranch(arg)) >= 1
             THEN ret = ReturnsList(FlatBranch(arg))
             ELSE ret = FatalList

\* a flat entry beside a device whose subsystem holds a bare and a nested namespace
HierarchicalBranchesMergeSeen ==
    /\ ListReturned /\ WellFormedDoc(arg)
    /\ Len(arg.Devices) = 2 /\ arg.Devices[1].hasDevicePath
    /\ Len(BareBranch(arg)) = 1 /\ Len(NestedBranch(arg)) = 1
    /\ ~ret.fatal /\ Len(ret.list) = 2
    /\ ret.list[2].nsController = nvme3

\* a bare controller name, with or without "/dev/": nvme<N> and nothing after it
BareControllerName(s) ==
    \E prefix \in {EmptyText, DevPrefix} :
        /\ Len(s) >= Len(prefix) + 5
        /\ SubSeq(s, 1, Len(prefix)) = prefix
        /\ IsControllerToken(SubSeq(s, Len(prefix) + 1, Len(s)))

(***************************************************************************)
(* C21: getControllerFromNs is fatal for every input that holds a          *)
(* controller token nvme<N> and no namespace suffix after it, such as      *)
(* "nvme1" or "nvme10"; it returns no controller for such an input.        *)
(***************************************************************************)
BareControllerIsFatal ==
    fn = "getControllerFromNs" /\ returned /\ BareControllerName(arg) => ret = Fatal

\* the number a key of the document holds, in hundredths, zero when absent
RawValue(json, key) == IF key \in DOMAIN json /\ json[key].type = "Number" THEN 100 * json[key].num ELSE 0

\* number of samples that come before the fixed ones
WarningAndSensorCount == Len(ret) - 4 - Len(FixedFields)

(***************************************************************************)
(* C22: of the samples of one device, the conversion to the configured     *)
(* scale is applied to the temperature sample and to every                 *)
(* temperature_sensor_N sample, with one and the same scale, and to no     *)
(* other sample: the critical-warning family (temp_threshold among them),  *)
(* the other fixed fields (warning_temp_time, critical_comp_time and the   *)
(* thm_temp* ones among them) and the namespace sizes carry the value      *)
(* read, unconverted.                                                      *)
(***************************************************************************)
OnlyTemperaturesConverted ==
    LogSent =>
        LET log == arg.nvmeSmartLogText
            k   == WarningAndSensorCount
        IN  /\ Scaled(RawValue(log, <<"temperature">>), FixedSampleAt(1).value)
            /\ \A i \in 1..k :
                  IsSensorSample(ret[i]) =>
                      Scaled(RawValue(log, <<"temperature", "sensor", ret[i].desc.fqName[2]>>),
                             ret[i].value)
            /\ \A i \in 2..Len(FixedFields) : FixedSampleAt(i).value = RawValue(log, KeyRead(i))
            /\ IF LogWarning.type = "JSON"
               THEN \A i \in 1..7 : ret[i].value = MemberValue(LogWarning.members, WarningTable[i][2])
               ELSE k = 1 /\ ret[1].value = RawValue(log, <<"critical", "warning">>)
            /\ ret[Len(ret) - 3].value = 100 * arg.nvmeDevice.nsMaximumLBA
            /\ ret[Len(ret) - 2].value = 100 * arg.nvmeDevice.nsUsedBytes
            /\ ret[Len(ret) - 1].value = 100 * arg.nvmeDevice.nsSectorSize
            /\ ret[Len(ret)].value = 100 * arg.nvmeDevice.nsPhysicalSize

\* fahrenheit: temperature and two sensors converted, temp_threshold and warning_temp_time not
OnlyTemperaturesConvertedSeen ==
    /\ LogSent
    /\ temperatureScale = "fahrenheit"
    /\ LogWarning.type = "JSON"
    /\ Cardinality(DOMAIN LogWarning.members) = 7
    /\ WarningAndSensorCount = 9
    /\ FixedSampleAt(1).value = 7313
    /\ ret[8].value = 8213
    /\ ret[3].value = 300
    /\ FixedSampleAt(16).value = 800
    /\ FixedSampleAt(21).value = 1100

\* C23: after one iteration of the smart-log loop the thm_temp2 total-time
\* sample carries the document's thm_temp1_total_time and the thm_temp1
\* total-time sample carries the document's thm_temp2_total_time
ThermalTimesSwapped ==
    LogSent =>
        /\ NamedLike(FixedSampleAt(21), "nvme_thm_temp2_trans_time")
        /\ FixedSampleAt(21).value
              = RawValue(arg.nvmeSmartLogText, <<"thm", "temp1", "total", "time">>)
        /\ NamedLike(FixedSampleAt(20), "nvme_thm_temp1_trans_time")
        /\ FixedSampleAt(20).value
              = RawValue(arg.nvmeSmartLogText, <<"thm", "temp2", "total", "time">>)

(***************************************************************************)
(* C24: the iteration of the smart-log loop that succeeds for a record     *)
(* sends a group of samples of which exactly four are namespace-capacity   *)
(* gauges, one each of maximum_lba, used_bytes, sector_size and            *)
(* physical_size, labelled with the record's device path and controller    *)
(* and carrying the value getDeviceList parsed for the record (so -1 for a *)
(* record of the flat list, never 0); every other sample of the group      *)
(* carries the device path as its only label.                              *)
(***************************************************************************)
NamespaceGauges ==
    {collector.nvmeNSMaximumLBA, collector.nvmeNSUsedBytes,
     collector.nvmeNSSectorSize, collector.nvmeNSPhysicalSize}

ParsedRecord(k) == parses[Len(parses)][2][k]

ParsedSize(desc, parsed) ==
    CASE desc = collector.nvmeNSMaximumLBA   -> parsed.nsMaximumLBA
      [] desc = collector.nvmeNSUsedBytes    -> parsed.nsUsedBytes
      [] desc = collector.nvmeNSSectorSize   -> parsed.nsSectorSize
      [] desc = collector.nvmeNSPhysicalSize -> parsed.nsPhysicalSize

FourNamespaceGaugesStep ==
    (pc = "logs" /\ dev' = dev + 1) =>
        LET parsed == ParsedRecord(dev + 1)
            group  == SubSeq(ch', Len(ch) + 1, Len(ch'))
            gauges == {k \in 1..Len(group) : group[k].desc \in NamespaceGauges}
        IN  /\ Cardinality(gauges) = 4
            /\ \A d \in NamespaceGauges : \E k \in gauges : group[k].desc = d
            /\ \A k \in gauges :
                  /\ group[k].valType = "gauge"
                  /\ group[k].labelValues = <<parsed.devicePath, parsed.nsController>>
                  /\ group[k].value = 100 * ParsedSize(group[k].desc, parsed)
            /\ \A k \in (1..Len(group)) \ gauges :
                  group[k].labelValues = <<parsed.devicePath>>

FourNamespaceGauges == [][FourNamespaceGaugesStep]_vars

\* the group of a record of the flat list has been sent: its last gauge
\* carries -1 (in hundredths) under the two labels
FourNamespaceGaugesSeen ==
    /\ pc = "totals"
    /\ Len(nvmeDeviceList) = 3
    /\ dev = 3
    /\ ParsedRecord(3).nsPhysicalSize = -1
    /\ ch[Len(ch)].desc = collector.nvmeNSPhysicalSize
    /\ ch[Len(ch)].value = -100
    /\ ch[Len(ch)].labelValues = <<DevPrefix \o Nvme \o <<"3", "n", "2">>, nvme3>>
    /\ ch[Len(ch) - 4].labelValues = <<DevPrefix \o Nvme \o <<"3", "n", "2">>>>

(***************************************************************************)
(* C25: when a poll has returned, the channel of the poll holds exactly    *)
(* one total_capacity sample for each controller of the poll's record      *)
(* list and none for any other controller (none left from an earlier       *)
(* poll); the sample carries the controller as its only label and the      *)
(* total capacity of the last record of the list with this controller, and *)
(* no sample of a device comes after a total_capacity sample.              *)
(***************************************************************************)
PollReturned == pc = "done"

TotalSamples == {k \in 1..Len(ch) : IsTotalCapacitySample(ch[k])}

ListControllers == {nvmeDeviceList[i].nsController : i \in 1..Len(nvmeDeviceList)}

LastRecordOf(controller) ==
    nvmeDeviceList[SetMax({i \in 1..Len(nvmeDeviceList) : nvmeDeviceList[i].nsController = controller})]

OneTotalPerController ==
    PollReturned =>
        /\ Cardinality(TotalSamples) = Cardinality(ListControllers)
        /\ \A controller \in ListControllers :
              \E k \in TotalSamples :
                  /\ ch[k].labelValues = <<controller>>
                  /\ ch[k].desc = collector.nvmeTotalCapacity
                  /\ ch[k].valType = "gauge"
                  /\ ch[k].value = 100 * LastRecordOf(controller).nsTotalCapacity
        /\ \A k \in TotalSamples : \A j \in 1..Len(ch) : j > k => j \in TotalSamples

\* the second poll has returned on a list of two controllers, one of them
\* with a first record of capacity 1000 and a last record of capacity 2000,
\* after a first poll whose list had a controller that this one has not
OneTotalPerControllerSeen ==
    /\ PollReturned
    /\ Len(parses) = 2
    /\ Len(parses[1][2]) = 1
    /\ parses[1][2][1].nsController = nvme0
    /\ Len(nvmeDeviceList) = 3
    /\ ListControllers = {nvme3, nvme9}
    /\ nvmeDeviceList[1].nsTotalCapacity = 1000
    /\ nvmeDeviceList[3].nsTotalCapacity = 2000
    /\ Cardinality(TotalSamples) = 2
    /\ \E k \in TotalSamples : ch[k].labelValues = <<nvme3>> /\ ch[k].value = 200000

(***************************************************************************)
(* C26: every sample on the channel of a poll is built from a descriptor   *)
(* that Describe sends, and carries as many label values as the descriptor *)
(* has variable labels: one under the device label, two under device and   *)
(* controller, one under the controller label.  A sensor sample is built   *)
(* from one of the eight entries of the sensor array.                      *)
(***************************************************************************)
Announced(desc) == \E i \in 1..Len(DescribeSends) : DescribeSends[i] = desc

DeclaredLabelCount(desc) ==
    CASE desc.variableLabels = labelsDevice           -> 1
      [] desc.variableLabels = labelsDeviceController -> 2
      [] desc.variableLabels = labelsController       -> 1
      [] OTHER                                        -> 0

EverySampleDescribed ==
    \A k \in 1..Len(ch) :
    /\ Announced(ch[k].desc)
    /\ ch[k].desc # NilDesc
    /\ Len(ch[k].labelValues) = Len(ch[k].desc.variableLabels)
    /\ Len(ch[k].labelValues) = DeclaredLabelCount(ch[k].desc)
    /\ IsSensorSample(ch[k]) =>
          \E i \in 1..maxTempSensors : ch[k].desc = collector.nvmeTemperatureSensors[i]

\* a poll of one device has returned, which reported more sensor fields than
\* the array has entries: its eighth sensor sample is followed by the
\* temperature sample, and the channel ends with a total_capacity sample
EverySampleDescribedSeen ==
    /\ PollReturned
    /\ Len(nvmeDeviceList) = 1
    /\ Len(ch) >= 41
    /\ ch[7].desc = collector.nvmePMRRO
    /\ ch[15].desc = collector.nvmeTemperatureSensors[maxTempSensors]
    /\ ch[16].desc = collector.nvmeTemperature
    /\ SensorField(maxTempSensors + 1) \in DOMAIN calls[Len(calls)].out.json
    /\ Len(ch[37].labelValues) = 2
    /\ ch[Len(ch)].desc = collector.nvmeTotalCapacity
    /\ Len(ch[Len(ch)].labelValues) = 1

=============================================================================
